---- MODULE Spec2Model ----
(***************************************************************************)
(* Smart-Agri-Suite, cultivatorIntentModule_Version2 backend.              *)
(*                                                                         *)
(* The call lifecycle of app/api/v1/endpoints/calls.py and the classifier  *)
(* of app/services/inference.py that analyses an uploaded recording.       *)
(*                                                                         *)
(* Every request handler is a coroutine: it runs without interruption      *)
(* between two awaits, and other handlers run while it awaits the          *)
(* database.  A handler is therefore one action per database operation it  *)
(* awaits: the action is the moment the database applies the operation,    *)
(* together with the synchronous code that follows it up to the next       *)
(* await.                                                                  *)
(*                                                                         *)
(* Units: time in seconds; scores in hundredths; a rounded score or a      *)
(* confidence in ten-thousandths (round(x, 4)); pause_ratio in hundredths; *)
(* speech_rate in tenths.                                                  *)
(***************************************************************************)
EXTENDS Integers, Sequences, FiniteSets, TLC

\* ------------------------------------------------------------------ bounds

\* Call records the database may hold.
MaxCalls == 2
\* Value at which the clock stops advancing.
MaxTime == 31
\* Request handlers in flight at once.
MaxSlots == 2
\* Requests the server receives in one run.
MaxRequests == 4
\* Requests to the interview router and to the health check.
MaxInterviewRequests == 3

\* ------------------------------------------------------- program constants

CALL_TIMEOUT_SECONDS == 30

INTENT_LABELS == <<"PROCEED", "VERIFY", "REJECT">>

AUDIO_FEATURES ==
    <<"duration_seconds", "rms_mean", "rms_std", "f0_mean", "f0_std",
      "zcr_mean", "spectral_centroid_mean", "tempo_proxy">>

TEXT_FEATURES ==
    <<"transcript_char_len", "transcript_word_count", "urgency_count",
      "money_count", "secrecy_count", "pressure_count",
      "id_avoidance_count", "otp_pin_count">>

ALL_FEATURES == AUDIO_FEATURES \o TEXT_FEATURES

\* CallStatus = Literal["ringing", "accepted", "rejected", "ended", "missed"]
CallStatus == {"ringing", "accepted", "rejected", "ended", "missed"}

\* ---------------------------------------------------------------- helpers

\* Python's None and a present value.
None == <<>>
Some(x) == <<x>>

\* dict.get under a key the dict never has: always the default.
Get_default(d, k, default) == default

\* dict.get(key, default); a dict is a function over its keys.
Get(d, k, default) == IF k \in DOMAIN d THEN d[k] ELSE default

\* The empty dict {}.
EmptyDict == [k \in {} |-> 0]

\* num / den cut to two places, in ten-thousandths.
Round4_two_places(num, den) == ((100 * num) \div den) * 100

\* round(num / den, 4), in ten-thousandths.
Round4(num, den) == (20000 * num + den) \div (2 * den)

\* list.sort(key=lambda x: x[1], reverse=True): stable, descending by score.
RECURSIVE SortDesc(_)
SortDesc(s) ==
    IF Len(s) <= 1 THEN s
    ELSE LET rest == SortDesc(Tail(s))
             x == Head(s)
             \* x goes before the first element of rest that is not larger
             before == {i \in 1..Len(rest) : rest[i][2] <= x[2]}
             k == IF before = {} THEN Len(rest) + 1
                  ELSE CHOOSE i \in before : \A j \in before : i <= j
         IN SubSeq(rest, 1, k - 1) \o <<x>> \o SubSeq(rest, k, Len(rest))

\* ------------------------------------------------- IntentRiskClassifier

\* An exception leaving a function, and a value returned by it.
Raise(e) == [kind |-> "raise", exc |-> e]
Return(v) == [kind |-> "ok", value |-> v]

\* The values the rules of predict_with_rules read, each with the default
\* of its dict.get.  pause_ratio is in hundredths, speech_rate in tenths.
RuleInputs(prosodic_features, text_features) ==
    [pitch_std |-> Get(prosodic_features, "pitch_std", 25),
     pause_ratio |-> Get(prosodic_features, "pause_ratio", 15),
     speech_rate |-> Get(prosodic_features, "speech_rate", 30),
     positive_count |-> Get(text_features, "positive_word_count", 0),
     negative_count |-> Get(text_features, "negative_word_count", 0),
     hesitation_count |-> Get(text_features, "hesitation_count", 0),
     question_count |-> Get(text_features, "question_count", 0),
     word_count |-> Get(text_features, "text_word_count", 100)]

\* proceed_score with the base score of verify_score.
proceed_score_base_15(f) ==
      (IF f.pitch_std < 22 THEN 15 ELSE 0)
    + (IF f.pause_ratio < 12 THEN 15 ELSE 0)
    + (IF f.speech_rate > 32 THEN 10 ELSE 0)
    + (IF f.positive_count > f.negative_count * 2 THEN 20 ELSE 0)
    + (IF f.hesitation_count <= 1 THEN 10 ELSE 0)
    + (IF f.question_count <= 2 THEN 10 ELSE 0)
    + (IF f.word_count >= 150 THEN 10 ELSE 0)
    + 15

\* proceed_score of predict_with_rules with its base score, in hundredths.
proceed_score(f) ==
      (IF f.pitch_std < 22 THEN 15 ELSE 0)
    + (IF f.pause_ratio < 12 THEN 15 ELSE 0)
    + (IF f.speech_rate > 32 THEN 10 ELSE 0)
    + (IF f.positive_count > f.negative_count * 2 THEN 20 ELSE 0)
    + (IF f.hesitation_count <= 1 THEN 10 ELSE 0)
    + (IF f.question_count <= 2 THEN 10 ELSE 0)
    + (IF f.word_count >= 150 THEN 10 ELSE 0)
    + 10

\* reject_score with the word-count rule only: the other elif branches add
\* nothing.
reject_score_word_count_only(f) ==
    (IF ~(f.word_count >= 150) /\ f.word_count < 70 THEN 10 ELSE 0) + 10

\* reject_score of predict_with_rules with its base score, in hundredths.
reject_score(f) ==
      (IF ~(f.pitch_std < 22) /\ f.pitch_std > 35 THEN 15 ELSE 0)
    + (IF ~(f.pause_ratio < 12) /\ f.pause_ratio > 22 THEN 15 ELSE 0)
    + (IF ~(f.speech_rate > 32) /\ f.speech_rate < 27 THEN 10 ELSE 0)
    + (IF ~(f.positive_count > f.negative_count * 2)
          /\ f.negative_count > f.positive_count * 2 THEN 20 ELSE 0)
    + (IF ~(f.hesitation_count <= 1) /\ f.hesitation_count >= 5
          THEN 15 ELSE 0)
    + (IF ~(f.question_count <= 2) /\ f.question_count >= 6 THEN 10 ELSE 0)
    + (IF ~(f.word_count >= 150) /\ f.word_count < 70 THEN 10 ELSE 0)
    + 10

\* verify_score with six questions or more adding to reject_score alone.
verify_score_reject_only(f) ==
      (IF ~(f.pitch_std < 22) /\ ~(f.pitch_std > 35) THEN 10 ELSE 0)
    + (IF ~(f.pause_ratio < 12) /\ ~(f.pause_ratio > 22) THEN 10 ELSE 0)
    + (IF ~(f.speech_rate > 32) /\ ~(f.speech_rate < 27) THEN 5 ELSE 0)
    + (IF ~(f.positive_count > f.negative_count * 2)
          /\ ~(f.negative_count > f.positive_count * 2) THEN 15 ELSE 0)
    + (IF ~(f.hesitation_count <= 1) /\ ~(f.hesitation_count >= 5)
          THEN 10 ELSE 0)
    + (IF ~(f.question_count <= 2) /\ ~(f.question_count >= 6) THEN 10
       ELSE 0)
    + 15

\* verify_score of predict_with_rules with its base score, in hundredths.
verify_score(f) ==
      (IF ~(f.pitch_std < 22) /\ ~(f.pitch_std > 35) THEN 10 ELSE 0)
    + (IF ~(f.pause_ratio < 12) /\ ~(f.pause_ratio > 22) THEN 10 ELSE 0)
    + (IF ~(f.speech_rate > 32) /\ ~(f.speech_rate < 27) THEN 5 ELSE 0)
    + (IF ~(f.positive_count > f.negative_count * 2)
          /\ ~(f.negative_count > f.positive_count * 2) THEN 15 ELSE 0)
    + (IF ~(f.hesitation_count <= 1) /\ ~(f.hesitation_count >= 5)
          THEN 10 ELSE 0)
    + (IF ~(f.question_count <= 2) /\ f.question_count >= 6 THEN 5
       ELSE IF ~(f.question_count <= 2) THEN 10 ELSE 0)
    + 15

\* IntentRiskClassifier.predict_with_rules.  The scores are kept as
\* hundredths over their total: the quotients score / total are exact
\* here, where the code divides floats, so two scores that are equal here
\* may differ in the last bit there.
predict_with_rules(prosodic_features, text_features) ==
    LET f == RuleInputs(prosodic_features, text_features)
        total == proceed_score(f) + verify_score(f) + reject_score(f)
        raw == [l \in {"PROCEED", "VERIFY", "REJECT"} |->
                   IF l = "PROCEED" THEN proceed_score(f)
                   ELSE IF l = "VERIFY" THEN verify_score(f)
                   ELSE reject_score(f)]
        \* max(scores, key=scores.get): the first maximal key in dict order
        best == CHOOSE i \in 1..3 :
                   /\ \A j \in 1..3 : raw[INTENT_LABELS[j]] <= raw[INTENT_LABELS[i]]
                   /\ \A j \in 1..(i - 1) :
                         raw[INTENT_LABELS[j]] < raw[INTENT_LABELS[i]]
        predicted_label == INTENT_LABELS[best]
        all_scores == SortDesc([i \in 1..3 |->
                         <<INTENT_LABELS[i], raw[INTENT_LABELS[i]]>>])
    IN [predicted_label |-> predicted_label,
        confidence |-> raw[predicted_label],
        total |-> total,
        all_scores |-> all_scores]

\* ------------------------------------------------------ feature extraction

\* A str is the sequence of its characters, so that len, lower, split and
\* the substring test "kw in text" can be computed.
urgency_kw ==
    << <<"u", "r", "g", "e", "n", "t">>,
       <<"i", "m", "m", "e", "d", "i", "a", "t", "e", "l", "y">>,
       <<"h", "u", "r", "r", "y">>,
       <<"r", "i", "g", "h", "t", " ", "n", "o", "w">>,
       <<"t", "o", "d", "a", "y", " ", "o", "n", "l", "y">>,
       <<"l", "i", "m", "i", "t", "e", "d", " ", "t", "i", "m", "e">> >>

money_kw ==
    << <<"s", "e", "n", "d", " ", "m", "o", "n", "e", "y">>,
       <<"t", "r", "a", "n", "s", "f", "e", "r">>,
       <<"p", "a", "y", "m", "e", "n", "t">>,
       <<"f", "e", "e">>,
       <<"d", "e", "p", "o", "s", "i", "t">>,
       <<"p", "r", "i", "z", "e">>,
       <<"w", "o", "n">>,
       <<"l", "o", "t", "t", "e", "r", "y">> >>

secrecy_kw ==
    << <<"d", "o", "n", "'", "t", " ", "t", "e", "l", "l">>,
       <<"s", "e", "c", "r", "e", "t">>,
       <<"k", "e", "e", "p", " ", "t", "h", "i", "s", " ", "b", "e", "t", "w", "e", "e", "n">>,
       <<"c", "o", "n", "f", "i", "d", "e", "n", "t", "i", "a", "l">> >>

pressure_kw ==
    << <<"y", "o", "u", " ", "m", "u", "s", "t">>,
       <<"h", "a", "v", "e", " ", "t", "o">>,
       <<"n", "o", " ", "c", "h", "o", "i", "c", "e">>,
       <<"f", "i", "n", "a", "l", " ", "w", "a", "r", "n", "i", "n", "g">>,
       <<"l", "e", "g", "a", "l", " ", "a", "c", "t", "i", "o", "n">> >>

id_avoid_kw ==
    << <<"i", " ", "a", "m">>,
       <<"t", "h", "i", "s", " ", "i", "s">>,
       <<"c", "a", "l", "l", "i", "n", "g", " ", "f", "r", "o", "m">>,
       <<"r", "e", "p", "r", "e", "s", "e", "n", "t", "a", "t", "i", "v", "e">> >>

otp_pin_kw ==
    << <<"o", "t", "p">>,
       <<"p", "i", "n">>,
       <<"p", "a", "s", "s", "w", "o", "r", "d">>,
       <<"c", "o", "d", "e">>,
       <<"v", "e", "r", "i", "f", "i", "c", "a", "t", "i", "o", "n">> >>

\* str.lower(), on the upper-case letters the transcripts considered use.
UpperCase ==
    ("A" :> "a") @@ ("C" :> "c") @@ ("D" :> "d") @@ ("E" :> "e") @@ ("H" :> "h")
    @@ ("I" :> "i") @@ ("N" :> "n") @@ ("O" :> "o") @@ ("P" :> "p") @@ ("R" :> "r")
    @@ ("S" :> "s") @@ ("T" :> "t") @@ ("U" :> "u") @@ ("Y" :> "y")

lower(text) ==
    [i \in 1..Len(text) |->
        IF text[i] \in DOMAIN UpperCase THEN UpperCase[text[i]] ELSE text[i]]

\* kw in text
Contains(text, kw) ==
    \E i \in 0..(Len(text) - Len(kw)) : SubSeq(text, i + 1, i + Len(kw)) = kw

\* count_keywords: the number of keywords of the list found in text.
count_keywords(text, keywords) ==
    Cardinality({k \in DOMAIN keywords : Contains(text, keywords[k])})

\* len(transcript.split()): the maximal runs of characters other than
\* white space.
WordCount(text) ==
    Cardinality({i \in DOMAIN text :
                    /\ text[i] # " "
                    /\ (i = 1 \/ text[i - 1] = " ")})

\* IntentRiskClassifier._extract_text_features
extract_text_features(transcript) ==
    IF transcript = <<>>
    THEN [feat \in {TEXT_FEATURES[i] : i \in DOMAIN TEXT_FEATURES} |-> 0]
    ELSE LET text_lower == lower(transcript)
         IN [transcript_char_len |-> Len(transcript),
             transcript_word_count |-> WordCount(transcript),
             urgency_count |-> count_keywords(text_lower, urgency_kw),
             money_count |-> count_keywords(text_lower, money_kw),
             secrecy_count |-> count_keywords(text_lower, secrecy_kw),
             pressure_count |-> count_keywords(text_lower, pressure_kw),
             id_avoidance_count |-> count_keywords(text_lower, id_avoid_kw),
             otp_pin_count |-> count_keywords(text_lower, otp_pin_kw)]

\* np.zeros(n) as a list.
Zeros(n) == [i \in 1..n |-> 0]

\* IntentRiskClassifier._extract_audio_features.  librosa and soundfile
\* are opaque; audio says what they do on the bytes:
\*   audio.decode  "ok"; "unreadable" when sf.read and librosa.load both
\*                 raise; "empty" when no sample is decoded; "no_librosa"
\*                 when the import fails
\*   audio.values  the eight acoustic features computed from the samples
extract_audio_features(audio) ==
    IF audio.decode = "no_librosa" THEN Return(Zeros(Len(ALL_FEATURES)))
    ELSE IF audio.decode = "unreadable" THEN Raise("LibsndfileError")
    ELSE IF audio.decode = "empty" THEN Return(Zeros(Len(ALL_FEATURES)))
    ELSE Return(audio.values \o Zeros(Len(TEXT_FEATURES)))

\* Python's truth value of an Optional[str]: None and "" are false.
Truthy(transcript) == transcript # None /\ transcript[1] # <<>>

\* [text_feats.get(feat, 0) for feat in TEXT_FEATURES]
FeatureList(feats, names) ==
    [i \in DOMAIN names |-> Get(feats, names[i], 0)]

\* IntentRiskClassifier.extract_features.  Every argument is an Optional.
extract_features(audio_data, transcript, audio_features, text_features) ==
    IF audio_features # None /\ text_features # None
    THEN FeatureList(audio_features[1], AUDIO_FEATURES)
            \o FeatureList(text_features[1], TEXT_FEATURES)
    ELSE
      LET audio_feats == IF audio_data # None
                         THEN extract_audio_features(audio_data[1])
                         ELSE Raise("no audio")
          text_array == FeatureList(extract_text_features(transcript[1]),
                                    TEXT_FEATURES)
      IN IF audio_data # None /\ audio_feats.kind = "ok"
         THEN IF Truthy(transcript)
              THEN SubSeq(audio_feats.value, 1, Len(AUDIO_FEATURES))
                      \o text_array
              ELSE audio_feats.value
         ELSE IF Truthy(transcript)
              THEN Zeros(Len(AUDIO_FEATURES)) \o text_array
              ELSE Zeros(Len(ALL_FEATURES))

\* The artifact bundle load_model looks for in models_dir.
ModelFile == "intent_risk_model.pkl"
ScalerFile == "intent_risk_scaler.pkl"
EncoderFile == "intent_risk_label_encoder.pkl"
MetadataFile == "model_metadata.json"
ArtifactFiles == {ModelFile, ScalerFile, EncoderFile, MetadataFile}

\* LabelEncoder().fit(DECISION_LABELS).classes_: sklearn keeps them sorted.
LabelEncoderClasses == <<"PROCEED", "REJECT", "VERIFY">>

\* IntentRiskClassifier.__init__
IntentRiskClassifier ==
    [model |-> None, scaler |-> None, label_encoder |-> None,
     metadata |-> EmptyDict, use_ml_model |-> FALSE,
     model_version |-> <<"rules", "1.0.0">>, is_loaded |-> FALSE]

\* The except branch of load_model.
LoadFailed(self) ==
    [self EXCEPT !.use_ml_model = FALSE,
                 !.model_version = <<"rules", "1.0.0">>,
                 !.is_loaded = TRUE]

\* IntentRiskClassifier.load_model.  dir maps each file present in
\* models_dir to what reading it gives: "corrupt" when the read raises,
\* else its content.
load_model(self, dir) ==
    IF ModelFile \notin DOMAIN dir THEN LoadFailed(self)
    ELSE IF dir[ModelFile] = "corrupt" THEN LoadFailed(self)
    ELSE
      LET s1 == [self EXCEPT !.model = Some(dir[ModelFile])]
      IN IF ScalerFile \in DOMAIN dir /\ dir[ScalerFile] = "corrupt"
         THEN LoadFailed(s1)
         ELSE
      LET s2 == IF ScalerFile \in DOMAIN dir
                THEN [s1 EXCEPT !.scaler = Some(dir[ScalerFile])] ELSE s1
      IN IF EncoderFile \in DOMAIN dir /\ dir[EncoderFile] = "corrupt"
         THEN LoadFailed(s2)
         ELSE
      LET s3 == IF EncoderFile \in DOMAIN dir
                THEN [s2 EXCEPT !.label_encoder = Some(dir[EncoderFile])]
                ELSE s2
      IN IF MetadataFile \in DOMAIN dir /\ dir[MetadataFile] = "corrupt"
         THEN LoadFailed(s3)
         ELSE
      LET s4 == IF MetadataFile \in DOMAIN dir
                THEN [s3 EXCEPT
                        !.metadata = [version |-> dir[MetadataFile]],
                        !.model_version = <<"ml", dir[MetadataFile]>>]
                ELSE s3
      IN [s4 EXCEPT !.use_ml_model = TRUE, !.is_loaded = TRUE]

\* IntentRiskClassifier.unload_model
unload_model(self) ==
    [self EXCEPT !.model = None, !.scaler = None, !.label_encoder = None,
                 !.metadata = EmptyDict, !.use_ml_model = FALSE,
                 !.is_loaded = FALSE]

\* IntentRiskClassifier.predict_with_ml.  The scaler and the model are
\* opaque sklearn objects; ml is what they do on this input:
\*   ml.transform  "ok", or "raise" when scaler.transform raises
\*   ml.model      "ok", or "raise" when the model raises
\*   ml.probs      the model's predict_proba row, in ten-thousandths
predict_with_ml(self, ml) ==
    IF self.scaler # None /\ ml.transform = "raise"
    THEN Raise("scaler.transform")
    ELSE IF self.model = None THEN Raise("AttributeError")
    ELSE IF ml.model = "raise" THEN Raise("model.predict_proba")
    ELSE
      LET probs == ml.probs
          \* np.argmax: the first maximal index
          pred_idx == CHOOSE i \in 1..Len(probs) :
                         /\ \A j \in 1..Len(probs) : probs[j] <= probs[i]
                         /\ \A j \in 1..(i - 1) : probs[j] < probs[i]
          all_labels == IF self.label_encoder # None
                        THEN LabelEncoderClasses ELSE INTENT_LABELS
      IN Return([predicted_label |-> all_labels[pred_idx],
                 confidence |-> probs[pred_idx],
                 all_scores |-> [i \in 1..Len(probs) |->
                                    <<all_labels[i], probs[i]>>]])

\* PredictionResult(...) with pydantic's Field(ge=0.0, le=1.0) on confidence
\* and on every IntentScore.score.
PredictionResult(predicted_intent, confidence, all_scores) ==
    IF /\ confidence \in 0..10000
       /\ \A i \in 1..Len(all_scores) : all_scores[i][2] \in 0..10000
    THEN Return([predicted_intent |-> predicted_intent,
                 confidence |-> confidence,
                 all_scores |-> all_scores])
    ELSE Raise("ValidationError")

\* IntentRiskClassifier.predict, returning the PredictionResult.  With the
\* trained model the features go through extract_features, the scaler and
\* the model, and ml is what those do on them; without it the feature
\* dicts go to the rules, and each score is rounded to four places.
predict(self, audio_features, text_features, ml) ==
    IF self.use_ml_model /\ self.model # None
    THEN LET r == predict_with_ml(self, ml)
         IN IF r.kind = "raise" THEN r
            ELSE PredictionResult(r.value.predicted_label,
                                  r.value.confidence, r.value.all_scores)
    ELSE LET r == predict_with_rules(audio_features, text_features)
         IN PredictionResult(
                r.predicted_label,
                Round4(r.confidence, r.total),
                [i \in 1..Len(r.all_scores) |->
                    <<r.all_scores[i][1], Round4(r.all_scores[i][2], r.total)>>])

\* IntentRiskClassifier.predict as IntentClassifier.predict calls it: with
\* audio_data only, so that both feature dicts are empty.
RiskClassifier_predict(self, ml) == predict(self, EmptyDict, EmptyDict, ml)

\* IntentClassifier.predict (the legacy wrapper get_classifier returns).
\* extract_features absorbs every failure of the audio extraction, so the
\* call before the branch never raises.  The trained-model branch builds
\* its result from the name RiskLevel, which the module never defines.
IntentClassifier_predict(self, ml) ==
    IF self.classifier.use_ml_model /\ self.classifier.is_loaded
    THEN LET r == predict_with_ml(self.classifier, ml)
         IN IF r.kind = "raise" THEN r ELSE Raise("NameError")
    ELSE RiskClassifier_predict(self.classifier, ml)

\* IntentClassifier.__init__
IntentClassifier ==
    [classifier |-> IntentRiskClassifier, model |-> None, is_loaded |-> FALSE]

\* IntentClassifier.load_model
IntentClassifier_load_model(self, dir) ==
    LET c == load_model(self.classifier, dir)
    IN [classifier |-> c, model |-> c.model, is_loaded |-> c.is_loaded]

\* get_classifier making a new instance, not loaded, on every later access.
get_classifier_new_instance(instance, dir) ==
    IF instance = None
    THEN Some(IntentClassifier_load_model(IntentClassifier, dir))
    ELSE Some(IntentClassifier)

\* get_classifier: the instance is created and loaded on first access.
get_classifier(instance, dir) ==
    IF instance = None
    THEN Some(IntentClassifier_load_model(IntentClassifier, dir))
    ELSE instance

\* get_risk_classifier: the instance is created and loaded on first access.
get_risk_classifier(instance, dir) ==
    IF instance = None
    THEN Some(load_model(IntentRiskClassifier, dir))
    ELSE instance

\* How often the call of an accessor whose global holds instance makes
\* load_model read the trained model with joblib.load: once when the
\* accessor creates the instance and the file exists.
ArtifactReads(instance, dir) ==
    IF instance = None /\ ModelFile \in DOMAIN dir THEN 1 ELSE 0

\* ------------------------------------------------------------ environment

\* Token payloads ("sub"); InvalidToken is a header verify_token refuses.
Users == {"admin1", "client1", "client2"}
InvalidToken == "invalid"
Role(user) == IF user = "admin1" THEN "admin" ELSE "client"

\* db.jobs: the job documents, by _id.  Requests may also name job 3,
\* which does not exist.
Jobs == (1 :> [createdByUserId |-> "client1"])
     @@ (2 :> [createdByUserId |-> "client2"])
JobIds == {1, 2, 3}

\* db.users: the _id of every user; a request may also name "nobody".
ClientIds == {"client1", "nobody"}

\* db.job_applications at start-up: client1 has applied for job 1, with
\* the status submit_application gives; the unique index on jobId and
\* applicantUserId allows one application for a pair.
Applications == <<1, "client1">> :> "new"

\* Contents of models_dir at start-up: nothing, and the whole bundle.
Deployments ==
    { EmptyDict,
      (ModelFile :> "model") @@ (ScalerFile :> "scaler")
         @@ (EncoderFile :> "encoder") @@ (MetadataFile :> "2.0.0") }

\* What the scaler and the model may do on one input.
MLBehaviours ==
    { [transform |-> "ok", model |-> "ok", probs |-> <<7000, 2000, 1000>>],
      [transform |-> "ok", model |-> "ok", probs |-> <<1000, 3000, 6000>>],
      [transform |-> "raise", model |-> "ok", probs |-> <<10000, 0, 0>>],
      [transform |-> "ok", model |-> "raise", probs |-> <<10000, 0, 0>>] }

\* File name extensions of an uploaded recording.
Extensions == {"wav", "webm"}

\* Seconds by which the clock advances in one step: the timeout exactly,
\* and one second more.
TickSteps == {CALL_TIMEOUT_SECONDS, CALL_TIMEOUT_SECONDS + 1}

\* ------------------------------------------------------------------ state

VARIABLES
    calls,       \* db.calls: the call documents in insertion order; the
                 \* _id of a call is its position
    now,         \* datetime.now(timezone.utc)
    reqs,        \* the request handlers in flight, by slot
    response,    \* the response the last step sent, NoResponse when it
                 \* sent none
    recordings,  \* the files of settings.recordings_dir
    received,    \* the number of requests received so far
    classifier,  \* _classifier_instance
    models_dir,  \* the files of models_dir
    livekit,     \* settings.livekit_api_key and livekit_api_secret are set
    input,       \* the arguments of a function called on its own
    output,      \* what that call returned or raised, None before it
    interviews,  \* db.inperson_interviews: the interview documents in
                 \* insertion order; the _id of one is its position
    applications,    \* db.job_applications: the status of the application
                     \* of each <<jobId, applicantUserId>> that has one
    job_status,      \* db.jobs: the status of each job
    handlers,        \* the interview handlers in flight, by slot
    risk_classifier, \* _risk_classifier_instance
    loads,       \* how often joblib.load read the trained model since the
                 \* process started
    handed,      \* the globals whose object an accessor has returned to a
                 \* caller since the process started
    tmp_files,   \* the files of tempfile.gettempdir(): for each one on
                 \* disk, "created", or "kept" once an os.unlink of it
                 \* has failed; a file is named by the request that
                 \* made it and its suffix
    lifespan     \* where lifespan(app) stands: "yielded" while the
                 \* application serves requests, "exited" once its
                 \* shutdown part has run

\* The state of the interview subsystem and of the classifier accessors.
interviewVars ==
    <<interviews, applications, job_status, handlers, risk_classifier,
      loads, handed, tmp_files, lifespan>>

vars ==
    <<calls, now, reqs, response, recordings, received, classifier,
      models_dir, livekit, input, output, interviewVars>>

Slots == 1..MaxSlots

\* A slot no handler uses.
IdleSlot ==
    [pc |-> "idle", op |-> "none", user |-> "none", target |-> 0,
     seen |-> "none", at |-> 0]

\* A new request is served in the first slot that no handler uses.
Free(r) ==
    /\ received < MaxRequests
    /\ reqs[r].pc = "idle"
    /\ \A q \in 1..(r - 1) : reqs[q].pc # "idle"

\* A slot no interview handler uses.  The slot of a handler in flight
\* keeps its locals: the path parameters, the request body, the _id of
\* the interview find_one returned (0 for none), now, and the analysis.
IdleHandler ==
    [pc |-> "idle", op |-> "none", req |-> 0, admin |-> "none", job_id |-> 0,
     client_id |-> "none", data |-> None, interview |-> 0, at |-> 0,
     result |-> None]

\* The response of a handler: the operation and the status code.
Response(op, code) == [op |-> op, code |-> code]

\* No response.
NoResponse == Response("none", 0)

\* A handler raising HTTPException(code) with nothing written.
Respond(r, op, code) ==
    /\ response' = Response(op, code)
    /\ reqs' = [reqs EXCEPT ![r] = IdleSlot]
    /\ received' = IF reqs[r].pc = "idle" THEN received + 1 ELSE received

\* A handler that passed its checks and awaits its write.  The slot keeps
\* the handler's locals: the caller, the status of the document find_one
\* returned, and now.
Await(r, pc, op, user, target, seen) ==
    /\ reqs' = [reqs EXCEPT ![r] =
                  [pc |-> pc, op |-> op, user |-> user, target |-> target,
                   seen |-> seen, at |-> now]]
    /\ received' = received + 1
    /\ response' = NoResponse

\* The write of slot r was applied and the handler returned 200.
Done(r) ==
    /\ response' = Response(reqs[r].op, 200)
    /\ reqs' = [reqs EXCEPT ![r] = IdleSlot]
    /\ UNCHANGED received

\* db.calls.update_one({"_id": call_id}, {"$set": fields})
update_one(call_id, fields) ==
    [calls EXCEPT ![call_id] =
        [f \in DOMAIN @ |-> IF f \in DOMAIN fields THEN fields[f] ELSE @[f]]]

Init ==
    /\ calls = <<>>
    /\ now = 0
    /\ reqs = [r \in Slots |-> IdleSlot]
    /\ response = NoResponse
    /\ recordings = {}
    /\ received = 0
    /\ models_dir \in Deployments
    /\ classifier = get_classifier(None, models_dir)
    /\ livekit \in BOOLEAN
    /\ input = None
    /\ output = None
    /\ interviews = <<>>
    /\ applications = Applications
    /\ job_status = [j \in DOMAIN Jobs |-> "new"]
    /\ handlers = [r \in Slots |-> IdleHandler]
    /\ risk_classifier = None
    /\ loads = ArtifactReads(None, models_dir)
    /\ handed = {}
    /\ tmp_files = EmptyDict
    /\ lifespan = "yielded"

\* Time passes.
Tick ==
    /\ \E d \in TickSteps :
          /\ now + d <= MaxTime
          /\ now' = now + d
    /\ response' = NoResponse
    /\ UNCHANGED <<calls, reqs, recordings, received, classifier, models_dir, livekit, input, output, interviewVars>>

\* ------------------------------------------------------------- check_missed_calls

\* check_missed_calls up to its await: the background task of an initiate
\* whose response was sent starts and reads the clock.
check_missed_calls_start(r) ==
    /\ reqs[r].pc = "background"
    /\ reqs' = [reqs EXCEPT ![r].pc = "update_many", ![r].at = now]
    /\ response' = NoResponse
    /\ UNCHANGED <<calls, now, recordings, received, classifier, models_dir, livekit, input, output, interviewVars>>

\* The call documents after
\* update_many({"status": "ringing", "createdAt": {"$lt": timeout_threshold}},
\*             {"$set": {"status": "missed", "updatedAt": now}})
\* of a sweep that read the clock at sweep_now.
\* update_many without "status": "ringing" in its filter.
MarkMissed_any_status(docs, sweep_now) ==
    [i \in DOMAIN docs |->
        IF docs[i].createdAt < sweep_now - CALL_TIMEOUT_SECONDS
        THEN [docs[i] EXCEPT !.status = "missed", !.updatedAt = sweep_now]
        ELSE docs[i]]

MarkMissed(docs, sweep_now) ==
    [i \in DOMAIN docs |->
        IF /\ docs[i].status = "ringing"
           /\ docs[i].createdAt < sweep_now - CALL_TIMEOUT_SECONDS
        THEN [docs[i] EXCEPT !.status = "missed", !.updatedAt = sweep_now]
        ELSE docs[i]]

\* check_missed_calls: the database applies the update_many.
check_missed_calls_update(r) ==
    /\ reqs[r].pc = "update_many"
    /\ calls' = MarkMissed(calls, reqs[r].at)
    /\ reqs' = [reqs EXCEPT ![r] = IdleSlot]
    /\ response' = NoResponse
    /\ UNCHANGED <<now, recordings, received, classifier, models_dir, livekit, input, output, interviewVars>>

\* ------------------------------------------------------------------ initiate_call

\* The find_one of the active call leaving out calls older than the timeout.
ActiveCall_within_timeout(docs, jobId) ==
    \E i \in DOMAIN docs :
        /\ docs[i].jobId = jobId
        /\ docs[i].status \in {"ringing", "accepted"}
        /\ now - docs[i].createdAt <= CALL_TIMEOUT_SECONDS

\* db.calls.find_one({"jobId": jobId, "status": {"$in": ["ringing", "accepted"]}})
ActiveCall(docs, jobId) ==
    \E i \in DOMAIN docs :
        docs[i].jobId = jobId /\ docs[i].status \in {"ringing", "accepted"}

\* Inserts that handlers in flight are still to make.
PendingInserts == Cardinality({r \in Slots : reqs[r].pc = "insert_one"})

\* initiate_call up to the await of insert_one: the token, the role, the
\* job, the active call of the job, the LiveKit tokens.
initiate_call_find(r, user, jobId) ==
    /\ Free(r)
    /\ Len(calls) + PendingInserts < MaxCalls
    /\ IF user = InvalidToken
       THEN Respond(r, "initiate", 401)
       ELSE IF Role(user) # "admin"
       THEN Respond(r, "initiate", 403)
       ELSE IF jobId \notin DOMAIN Jobs
       THEN Respond(r, "initiate", 404)
       ELSE IF ActiveCall(calls, jobId)
       THEN Respond(r, "initiate", 400)
       ELSE IF ~livekit
       THEN Respond(r, "initiate", 500)
       ELSE Await(r, "insert_one", "initiate", user, jobId, "none")
    /\ UNCHANGED <<calls, now, recordings, classifier, models_dir, livekit, input, output, interviewVars>>

\* The call document initiate_call creates.
call_doc(jobId, admin, created) ==
    [jobId |-> jobId,
     adminUserId |-> admin,
     clientUserId |-> Jobs[jobId].createdByUserId,
     status |-> "ringing",
     createdAt |-> created,
     updatedAt |-> created,
     startedAt |-> None,
     endedAt |-> None,
     recording |-> None,
     analysis |-> None]

\* initiate_call: the database applies the insert_one; the handler
\* schedules check_missed_calls and returns.
initiate_call_insert(r) ==
    /\ reqs[r].pc = "insert_one"
    /\ calls' = Append(calls, call_doc(reqs[r].target, reqs[r].user, reqs[r].at))
    /\ reqs' = [reqs EXCEPT ![r] = [IdleSlot EXCEPT !.pc = "background"]]
    /\ response' = Response("initiate", 200)
    /\ UNCHANGED received
    /\ UNCHANGED <<now, recordings, classifier, models_dir, livekit, input, output, interviewVars>>

\* ------------------------------------------------- accept_call, reject_call, end_call

\* The checks accept_call, reject_call and end_call make on the document
\* find_one returned: the status code they raise, or 0 when all pass.
\* parties are the fields the caller may be; active the statuses allowed.
Guard(user, call_id, parties, active) ==
    IF user = InvalidToken THEN 401
    ELSE IF call_id \notin DOMAIN calls THEN 404
    ELSE IF \A p \in parties : calls[call_id][p] # user THEN 403
    ELSE IF calls[call_id].status \notin active THEN 400
    ELSE 0

\* The status find_one returned, "none" without a document.
Seen(user, call_id) ==
    IF user # InvalidToken /\ call_id \in DOMAIN calls
    THEN calls[call_id].status ELSE "none"

\* A handler after find_one returned: it raises the status code of its
\* checks, or goes on to await its update_one.
Checked(r, op, user, call_id, code) ==
    /\ IF code # 0
       THEN Respond(r, op, code)
       ELSE Await(r, "update_one", op, user, call_id, Seen(user, call_id))
    /\ UNCHANGED <<calls, now, recordings, classifier, models_dir, livekit, input, output, interviewVars>>

\* A handler from the moment the database applies its update_one.
Updated(r, fields) ==
    /\ calls' = update_one(reqs[r].target, fields)
    /\ Done(r)
    /\ UNCHANGED <<now, recordings, classifier, models_dir, livekit, input, output, interviewVars>>

\* accept_call with a status check that lets a missed call through.
accept_call_guard_missed(user, call_id) ==
    Guard(user, call_id, {"clientUserId"}, {"ringing", "missed"})

\* The checks of accept_call.
accept_call_guard(user, call_id) ==
    Guard(user, call_id, {"clientUserId"}, {"ringing"})

accept_call_find(r, user, call_id) ==
    /\ Free(r)
    /\ Checked(r, "accept", user, call_id, accept_call_guard(user, call_id))

\* The $set of accept_call.
accept_call_fields(at) ==
    [status |-> "accepted", startedAt |-> Some(at), updatedAt |-> at]

accept_call_update(r) ==
    /\ reqs[r].pc = "update_one"
    /\ reqs[r].op = "accept"
    /\ Updated(r, accept_call_fields(reqs[r].at))

\* reject_call without its status check.
reject_call_guard_any_status(user, call_id) ==
    Guard(user, call_id, {"clientUserId"}, CallStatus)

\* The checks of reject_call.
reject_call_guard(user, call_id) ==
    Guard(user, call_id, {"clientUserId"}, {"ringing"})

reject_call_find(r, user, call_id) ==
    /\ Free(r)
    /\ Checked(r, "reject", user, call_id, reject_call_guard(user, call_id))

\* The $set of reject_call.
reject_call_fields(at) == [status |-> "rejected", updatedAt |-> at]

reject_call_update(r) ==
    /\ reqs[r].pc = "update_one"
    /\ reqs[r].op = "reject"
    /\ Updated(r, reject_call_fields(reqs[r].at))

\* The checks of end_call.
end_call_guard(user, call_id) ==
    Guard(user, call_id, {"clientUserId", "adminUserId"},
          {"ringing", "accepted"})

end_call_find(r, user, call_id) ==
    /\ Free(r)
    /\ Checked(r, "end", user, call_id, end_call_guard(user, call_id))

\* The $set of end_call without endedAt.
end_call_fields_unstamped(at) == [status |-> "ended", updatedAt |-> at]

\* The $set of end_call.
end_call_fields(at) ==
    [status |-> "ended", endedAt |-> Some(at), updatedAt |-> at]

end_call_update(r) ==
    /\ reqs[r].pc = "update_one"
    /\ reqs[r].op = "end"
    /\ Updated(r, end_call_fields(reqs[r].at))

\* --------------------------------------------------------------- upload_recording

\* {score.label: score.score for score in all_scores}: a later pair
\* replaces an earlier one of the same label.
DictOf(pairs) ==
    [l \in {pairs[i][1] : i \in DOMAIN pairs} |->
        LET last == CHOOSE i \in DOMAIN pairs :
                        /\ pairs[i][1] = l
                        /\ \A j \in DOMAIN pairs : pairs[j][1] = l => j <= i
        IN pairs[last][2]]

\* The analysis upload_recording builds from what classifier.predict did:
\* the prediction, or the default of the except branch.
Analysis(outcome, at) ==
    IF outcome.kind = "ok"
    THEN [intentLabel |-> outcome.value.predicted_intent,
          confidence |-> outcome.value.confidence,
          scores |-> DictOf(outcome.value.all_scores),
          analyzedAt |-> at]
    ELSE [intentLabel |-> "unknown",
          confidence |-> 0,
          scores |-> EmptyDict,
          analyzedAt |-> at]

\* The classifier upload_recording predicts with: get_classifier(), loaded
\* first when it is not.
LoadedClassifier ==
    LET c == get_classifier(classifier, models_dir)[1]
    IN IF ~c.is_loaded THEN IntentClassifier_load_model(c, models_dir) ELSE c

\* The $set of upload_recording with a status of its own.
RecordingFields_analyzed(call_id, ext, outcome, at) ==
    [recording |-> Some([backendFilePath |-> <<call_id, ext>>,
                         uploadedAt |-> at]),
     analysis |-> Some(Analysis(outcome, at)),
     status |-> "analyzed",
     updatedAt |-> at]

\* The $set of upload_recording.
RecordingFields(call_id, ext, outcome, at) ==
    [recording |-> Some([backendFilePath |-> <<call_id, ext>>,
                         uploadedAt |-> at]),
     analysis |-> Some(Analysis(outcome, at)),
     updatedAt |-> at]

\* upload_recording with the party check of end_call.
upload_recording_guard_either_party(user, call_id) ==
    Guard(user, call_id, {"clientUserId", "adminUserId"}, {"ended"})

\* The checks of upload_recording.
upload_recording_guard(user, call_id) ==
    Guard(user, call_id, {"clientUserId"}, {"ended"})

upload_recording_find(r, user, call_id) ==
    /\ Free(r)
    /\ Checked(r, "upload", user, call_id, upload_recording_guard(user, call_id))

\* upload_recording from file.read() on: the file is saved (or saving it
\* fails), the classifier predicts, and the database applies the
\* update_one.
upload_recording_update(r, ext, saved, ml) ==
    /\ reqs[r].pc = "update_one"
    /\ reqs[r].op = "upload"
    /\ IF ~saved
       THEN /\ Respond(r, "upload", 500)
            /\ UNCHANGED <<calls, classifier, recordings, loads, handed>>
       ELSE /\ recordings' = recordings \cup {<<reqs[r].target, ext>>}
            /\ classifier' = Some(LoadedClassifier)
            /\ loads' = loads + ArtifactReads(classifier, models_dir)
            /\ handed' = handed \cup {"_classifier_instance"}
            /\ calls' = update_one(reqs[r].target,
                           RecordingFields(reqs[r].target, ext,
                               IntentClassifier_predict(LoadedClassifier, ml),
                               now))
            /\ Done(r)
    /\ UNCHANGED <<now, models_dir, livekit, input, output, interviews,
                   applications, job_status, handlers, risk_classifier,
                   tmp_files,
                   lifespan>>

\* ------------------------------------------------------------------ specification

Next ==
    \/ Tick
    \/ \E r \in Slots, user \in Users \cup {InvalidToken}, jobId \in JobIds :
          initiate_call_find(r, user, jobId)
    \/ \E r \in Slots : initiate_call_insert(r)
    \/ \E r \in Slots : check_missed_calls_start(r)
    \/ \E r \in Slots : check_missed_calls_update(r)
    \/ \E r \in Slots, user \in Users \cup {InvalidToken}, call_id \in 1..MaxCalls :
          \/ accept_call_find(r, user, call_id)
          \/ reject_call_find(r, user, call_id)
          \/ end_call_find(r, user, call_id)
          \/ upload_recording_find(r, user, call_id)
    \/ \E r \in Slots :
          \/ accept_call_update(r)
          \/ reject_call_update(r)
          \/ end_call_update(r)
    \/ \E r \in Slots, ext \in Extensions, saved \in BOOLEAN, ml \in MLBehaviours :
          upload_recording_update(r, ext, saved, ml)

Spec == Init /\ [][Next]_vars

\* ----------------------------------------------------- predict on its own

\* The state of the call subsystem before any request, which a function
\* called on its own neither reads nor writes.
NoRequests ==
    /\ calls = <<>>
    /\ now = 0
    /\ reqs = [r \in Slots |-> IdleSlot]
    /\ response = NoResponse
    /\ recordings = {}
    /\ received = 0
    /\ models_dir = EmptyDict
    /\ classifier = None
    /\ livekit = FALSE
    /\ interviews = <<>>
    /\ applications = Applications
    /\ job_status = [j \in DOMAIN Jobs |-> "new"]
    /\ handlers = [r \in Slots |-> IdleHandler]
    /\ risk_classifier = None
    /\ loads = 0
    /\ handed = {}
    /\ tmp_files = EmptyDict
    /\ lifespan = "yielded"

\* Feature dicts handed to predict: empty, or with every key the rules
\* read, in the units of RuleInputs.
ProsodicInputs ==
    {EmptyDict} \cup [pitch_std : {0, 15, 22, 35, 45},
                      pause_ratio : {0, 8, 12, 22, 30},
                      speech_rate : {0, 20, 27, 32, 35}]

TextInputs ==
    {EmptyDict} \cup [positive_word_count : {0, 1, 10},
                      negative_word_count : {0, 1, 10},
                      hesitation_count : {0, 3, 8},
                      question_count : {0, 1, 4, 7},
                      text_word_count : {0, 40, 100, 200}]

\* What the scaler and the model may do on one input: the rows are
\* predict_proba rows rounded to four places.
ProbaBehaviours ==
    MLBehaviours \cup
    { [transform |-> "ok", model |-> "ok", probs |-> p] :
         p \in { <<3333, 3333, 3333>>, <<3334, 3334, 3333>>,
                 <<0, 10000, 0>>, <<4000, 4000, 2000>>,
                 <<502, 9001, 497>> } }

\* models_dir with the trained model: the whole bundle, and the bundle
\* without its label encoder.
ModelDirs ==
    { (ModelFile :> "model") @@ (ScalerFile :> "scaler")
         @@ (EncoderFile :> "encoder") @@ (MetadataFile :> "2.0.0"),
      (ModelFile :> "model") @@ (ScalerFile :> "scaler")
         @@ (MetadataFile :> "2.0.0") }

\* Feature dicts with the keys of one rule only, at and around the
\* thresholds of that rule; the other rules read their defaults.
ThresholdInputs ==
    {("pitch_std" :> v) : v \in {21, 22, 23, 34, 35, 36}}
       \cup {("pause_ratio" :> v) : v \in {11, 12, 13, 21, 22, 23}}
       \cup {("speech_rate" :> v) : v \in {26, 27, 28, 31, 32, 33}}
       \cup {("positive_word_count" :> v[1]) @@ ("negative_word_count" :> v[2]) :
                v \in {<<2, 1>>, <<3, 1>>, <<1, 2>>, <<1, 3>>, <<1, 0>>, <<0, 1>>}}
       \cup {("hesitation_count" :> v) : v \in 0..6}
       \cup {("question_count" :> v) : v \in 0..7}
       \cup {("text_word_count" :> v) : v \in {69, 70, 71, 149, 150, 151}}

\* The calls of predict considered: the rules on every pair of feature
\* dicts and on the dicts of one rule, and the trained model on everything
\* it may do.
PredictInputs ==
    [self : {load_model(IntentRiskClassifier, EmptyDict)},
     audio_features : ProsodicInputs,
     text_features : TextInputs,
     ml : {[transform |-> "ok", model |-> "ok", probs |-> <<10000, 0, 0>>]}]
    \cup
    [self : {load_model(IntentRiskClassifier, EmptyDict)},
     audio_features : ThresholdInputs,
     text_features : ThresholdInputs,
     ml : {[transform |-> "ok", model |-> "ok", probs |-> <<10000, 0, 0>>]}]
    \cup
    [self : {load_model(IntentRiskClassifier, d) : d \in ModelDirs},
     audio_features : {EmptyDict},
     text_features : {EmptyDict},
     ml : ProbaBehaviours]

PredictInit ==
    /\ NoRequests
    /\ input \in PredictInputs
    /\ output = None

\* classifier.predict(audio_features=..., text_features=...)
predict_call ==
    /\ output = None
    /\ output' = Some(predict(input.self, input.audio_features,
                              input.text_features, input.ml))
    /\ UNCHANGED <<calls, now, reqs, response, recordings, received,
                   classifier, models_dir, livekit, input, interviewVars>>

PredictNext == predict_call

PredictSpec == PredictInit /\ [][PredictNext]_vars

\* -------------------------------------------- extract_features on its own

\* What the audio decoders may do on the bytes handed in.
AudioInputs ==
    { [decode |-> d, values |-> <<3, 1, 1, 120, 20, 1, 1500, 90>>] :
         d \in {"ok", "unreadable", "empty", "no_librosa"} }

\* Transcripts: "", "Send OTP now", "pin code" and "otp OTP".
Transcripts ==
    { <<>>,
      <<"S", "e", "n", "d", " ", "O", "T", "P", " ", "n", "o", "w">>,
      <<"p", "i", "n", " ", "c", "o", "d", "e">>,
      <<"o", "t", "p", " ", "O", "T", "P">> }

\* Pre-computed feature dicts: empty, partial and complete.
AudioFeatureDicts ==
    { EmptyDict,
      [f0_mean |-> 140, f0_std |-> 25],
      [duration_seconds |-> 5, rms_mean |-> 2, rms_std |-> 1,
       f0_mean |-> 140, f0_std |-> 25, zcr_mean |-> 1,
       spectral_centroid_mean |-> 1800, tempo_proxy |-> 110] }

TextFeatureDicts ==
    { EmptyDict,
      [urgency_count |-> 2, otp_pin_count |-> 1],
      [transcript_char_len |-> 40, transcript_word_count |-> 8,
       urgency_count |-> 2, money_count |-> 1, secrecy_count |-> 0,
       pressure_count |-> 1, id_avoidance_count |-> 0,
       otp_pin_count |-> 1] }

\* An Optional over the set S.
Optional(S) == {None} \cup {Some(x) : x \in S}

ExtractInit ==
    /\ NoRequests
    /\ input \in [audio_data : Optional(AudioInputs),
                   transcript : Optional(Transcripts),
                   audio_features : Optional(AudioFeatureDicts),
                   text_features : Optional(TextFeatureDicts)]
    /\ output = None

\* classifier.extract_features(audio_data, transcript, audio_features,
\* text_features)
extract_features_call ==
    /\ output = None
    /\ output' = Some(Return(extract_features(input.audio_data,
                                              input.transcript,
                                              input.audio_features,
                                              input.text_features)))
    /\ UNCHANGED <<calls, now, reqs, response, recordings, received,
                   classifier, models_dir, livekit, input, interviewVars>>

ExtractNext == extract_features_call

ExtractSpec == ExtractInit /\ [][ExtractNext]_vars

\* ------------------------------------------------- load_model on its own

\* What reading a file of the bundle gives when it can be read.
Content(file) == IF file = MetadataFile THEN "2.0.0" ELSE "loaded"

\* Every models_dir: each file of the bundle absent, readable or corrupt.
ModelsDirs ==
    { [file \in present |->
          IF file \in corrupt THEN "corrupt" ELSE Content(file)] :
         present \in SUBSET ArtifactFiles, corrupt \in SUBSET ArtifactFiles }

LoadInit ==
    /\ NoRequests
    /\ input \in [dir : ModelsDirs]
    /\ output = None

\* IntentRiskClassifier(models_dir).load_model()
load_model_call ==
    /\ output = None
    /\ output' = Some(Return(load_model(IntentRiskClassifier, input.dir)))
    /\ UNCHANGED <<calls, now, reqs, response, recordings, received,
                   classifier, models_dir, livekit, input, interviewVars>>

LoadNext == load_model_call

LoadSpec == LoadInit /\ [][LoadNext]_vars

\* ---------------------------------------------------- the interview router

\* A new interview request is served in the first slot that no interview
\* handler uses.
FreeHandler(r) ==
    /\ received < MaxInterviewRequests
    /\ handlers[r].pc = "idle"
    /\ \A q \in 1..(r - 1) : handlers[q].pc # "idle"

\* get_admin_from_token: the status code it raises, 200 when it returns.
get_admin_from_token(user) ==
    IF user = InvalidToken THEN 401
    ELSE IF Role(user) # "admin" THEN 403
    ELSE 200

\* db.inperson_interviews.find_one({"jobId": job_id, "clientId": client_id}):
\* the _id of the first document of the pair, 0 when there is none.
find_interview(job_id, client_id) ==
    LET found == {i \in DOMAIN interviews :
                     /\ interviews[i].jobId = job_id
                     /\ interviews[i].clientId = client_id}
    IN IF found = {} THEN 0
       ELSE CHOOSE i \in found : \A j \in found : i <= j

\* db.inperson_interviews.update_one({"_id": interview_id}, {"$set": fields})
update_interview(interview_id, fields) ==
    [interviews EXCEPT ![interview_id] =
        [f \in DOMAIN @ |-> IF f \in DOMAIN fields THEN fields[f] ELSE @[f]]]

\* db.job_applications.update_many({"jobId": job_id, "applicantUserId":
\* client_id}, {"$set": {"status": status, ...}})
update_applications(job_id, client_id, status) ==
    [p \in DOMAIN applications |->
        IF p = <<job_id, client_id>> THEN status ELSE applications[p]]

\* A handler raising HTTPException(code) before its first write.
Refuse(op, code) ==
    /\ response' = Response(op, code)
    /\ received' = received + 1
    /\ UNCHANGED handlers

\* A handler that passed its checks and awaits its first write.
Suspend(r, pc, op, admin, job_id, client_id, data, interview) ==
    /\ handlers' = [handlers EXCEPT ![r] =
                      [pc |-> pc, op |-> op, req |-> received + 1,
                       admin |-> admin, job_id |-> job_id, client_id |-> client_id,
                       data |-> data, interview |-> interview, at |-> now,
                       result |-> None]]
    /\ received' = received + 1
    /\ response' = NoResponse

\* The handler of slot r goes on to its next await.
Proceed(r, pc) ==
    /\ handlers' = [handlers EXCEPT ![r].pc = pc]
    /\ response' = NoResponse
    /\ UNCHANGED received

\* The handler of slot r returns its response.
Return200(r) ==
    /\ response' = Response(handlers[r].op, 200)
    /\ handlers' = [handlers EXCEPT ![r] = IdleHandler]
    /\ UNCHANGED received

\* ------------------------------------------------------ invite_for_interview

\* The bodies of an invite: none, and one with a time and notes.
InviteBodies == {None, Some([scheduledAt |-> 40, notes |-> "bring ID"])}

\* data.scheduledAt if data else None
ScheduledAt(data) == IF data # None THEN Some(data[1].scheduledAt) ELSE None

\* data.notes if data else None
Notes(data) == IF data # None THEN Some(data[1].notes) ELSE None

\* The checks of invite_for_interview: the token, the job, the client.
invite_for_interview_checks(user, job_id, client_id) ==
    IF get_admin_from_token(user) # 200 THEN get_admin_from_token(user)
    ELSE IF job_id \notin DOMAIN Jobs THEN 404
    ELSE IF client_id \notin Users THEN 404
    ELSE 200

\* invite_for_interview up to the find_one of the interview.
invite_for_interview_find(r, user, job_id, client_id, data) ==
    /\ FreeHandler(r)
    /\ LET code == invite_for_interview_checks(user, job_id, client_id)
       IN IF code # 200
          THEN Refuse("invite", code)
          ELSE Suspend(r, "write_interview", "invite", user, job_id,
                       client_id, data, find_interview(job_id, client_id))
    /\ UNCHANGED <<calls, now, reqs, recordings, classifier, models_dir,
                   livekit, input, output, interviews, applications,
                   job_status, risk_classifier, loads, handed, tmp_files,
                   lifespan>>

\* The $set of a re-invite that also puts the interview back to pending.
invite_fields_pending(data, at) ==
    [interviewScheduledAt |-> ScheduledAt(data),
     notes |-> Notes(data),
     status |-> "pending",
     updatedAt |-> at]

\* The $set of an invite for a pair that has an interview.
invite_fields(data, at) ==
    [interviewScheduledAt |-> ScheduledAt(data),
     notes |-> Notes(data),
     updatedAt |-> at]

\* The interview document of an invite for a pair that has none.
interview_doc(job_id, client_id, admin, data, at) ==
    [jobId |-> job_id,
     clientId |-> client_id,
     adminId |-> admin,
     interviewScheduledAt |-> ScheduledAt(data),
     interviewCompletedAt |-> None,
     videoDurationSeconds |-> None,
     analysisDecision |-> None,
     confidence |-> None,
     reasons |-> <<>>,
     notes |-> Notes(data),
     status |-> "pending",
     createdAt |-> at,
     updatedAt |-> at]

\* invite_for_interview: the update_one or the insert_one is applied.
invite_for_interview_write(r) ==
    /\ handlers[r].pc = "write_interview"
    /\ LET h == handlers[r]
       IN IF h.interview # 0
          THEN /\ interviews' = update_interview(h.interview,
                                                 invite_fields(h.data, h.at))
               /\ Proceed(r, "update_applications")
          ELSE /\ interviews' = Append(interviews,
                                   interview_doc(h.job_id, h.client_id,
                                                 h.admin, h.data, h.at))
               /\ handlers' = [handlers EXCEPT
                                  ![r].pc = "update_applications",
                                  ![r].interview = Len(interviews) + 1]
               /\ response' = NoResponse
               /\ UNCHANGED received
    /\ UNCHANGED <<calls, now, reqs, recordings, classifier, models_dir,
                   livekit, input, output, applications, job_status,
                   risk_classifier, loads, handed, tmp_files,
                   lifespan>>

\* invite_for_interview: the update_many of the applications is applied.
invite_for_interview_applications(r) ==
    /\ handlers[r].pc = "update_applications"
    /\ handlers[r].op = "invite"
    /\ applications' = update_applications(handlers[r].job_id,
                                           handlers[r].client_id,
                                           "invited_interview")
    /\ Proceed(r, "update_job")
    /\ UNCHANGED <<calls, now, reqs, recordings, classifier, models_dir,
                   livekit, input, output, interviews, job_status,
                   risk_classifier, loads, handed, tmp_files,
                   lifespan>>

\* invite_for_interview: the update_one of the job is applied, the client
\* is notified and the handler returns.  db.notifications is not part of
\* the state.
invite_for_interview_job(r) ==
    /\ handlers[r].pc = "update_job"
    /\ job_status' = [job_status EXCEPT ![handlers[r].job_id] =
                         "invited_interview"]
    /\ Return200(r)
    /\ UNCHANGED <<calls, now, reqs, recordings, classifier, models_dir,
                   livekit, input, output, interviews, applications,
                   risk_classifier, loads, handed, tmp_files,
                   lifespan>>

\* --------------------------------------------------- analyze_interview_video

\* analyze_interview_video up to its await of file.read(): the interview
\* is found, and NamedTemporaryFile(suffix=".mp4", delete=False) has made
\* the file of the video.
analyze_interview_video_find(r, user, job_id, client_id) ==
    /\ FreeHandler(r)
    /\ UNCHANGED lifespan
    /\ LET code == get_admin_from_token(user)
           interview == find_interview(job_id, client_id)
       IN IF code # 200
          THEN Refuse("analyze", code) /\ UNCHANGED tmp_files
          ELSE IF interview = 0
          THEN Refuse("analyze", 404) /\ UNCHANGED tmp_files
          ELSE /\ Suspend(r, "read_file", "analyze", user, job_id,
                          client_id, None, interview)
               /\ tmp_files' = tmp_files
                                  @@ (<<received + 1, "mp4">> :> "created")
    /\ UNCHANGED <<calls, now, reqs, recordings, classifier, models_dir,
                   livekit, input, output, interviews, applications,
                   job_status, risk_classifier, loads, handed>>

\* "Map call decisions to interview decisions"
interview_decision(label) ==
    IF label = "PROCEED" THEN "APPROVE"
    ELSE IF label = "REJECT" THEN "REJECT"
    ELSE "VERIFY"

\* "Generate reasons based on features"
decision_reasons(decision) ==
    IF decision = "APPROVE"
    THEN <<"No suspicious patterns detected",
           "Voice analysis within normal range">>
    ELSE IF decision = "REJECT"
    THEN <<"Suspicious patterns detected", "High-risk indicators found">>
    ELSE <<"Manual review recommended", "Some uncertainty in analysis">>

\* The locals of analyze_interview_video after its analysis: the label of
\* the model (None when the model gave none), the decision, the confidence
\* (in ten-thousandths) and the reasons.  audio_extracted is whether the audio track
\* was extracted and its file exists, audio_size is len(audio_bytes), and
\* ml is what the scaler and the model do on the features of the audio.
analyze(cls, audio_extracted, audio_size, duration_seconds, ml) ==
    IF ~audio_extracted
    THEN [label |-> None, decision |-> "VERIFY", confidence |-> 5000,
          reasons |-> <<"Audio extraction failed", "Manual review required">>]
    ELSE IF cls.is_loaded /\ cls.use_ml_model
    THEN LET r == predict_with_ml(cls, ml)
         IN IF r.kind = "raise"
            THEN [label |-> None, decision |-> "VERIFY",
                  confidence |-> 5000,
                  reasons |-> <<"Analysis completed with fallback method">>]
            ELSE LET decision == interview_decision(r.value.predicted_label)
                 IN [label |-> Some(r.value.predicted_label),
                     decision |-> decision,
                     confidence |-> r.value.confidence,
                     reasons |-> decision_reasons(decision)]
    ELSE IF audio_size > 100000 /\ duration_seconds > 30
    THEN [label |-> None, decision |-> "APPROVE", confidence |-> 7500,
          reasons |-> <<"Sufficient interview duration",
                        "Audio quality acceptable">>]
    ELSE IF duration_seconds < 10
    THEN [label |-> None, decision |-> "VERIFY", confidence |-> 6000,
          reasons |-> <<"Interview too short", "Manual review needed">>]
    ELSE [label |-> None, decision |-> "VERIFY", confidence |-> 6500,
          reasons |-> <<"Standard interview",
                        "Manual verification recommended">>]

\* The $set of analyze_interview_video on the interview.
analysis_fields(result, duration_seconds, at) ==
    [interviewCompletedAt |-> Some(at),
     videoDurationSeconds |-> Some(duration_seconds),
     analysisDecision |-> Some(result.decision),
     confidence |-> Some(result.confidence),
     reasons |-> result.reasons,
     status |-> "completed",
     updatedAt |-> at]

\* The status of an application with VERIFY taken for a rejection.
new_status_two_way(decision) ==
    IF decision = "APPROVE" THEN "approved" ELSE "rejected"

\* "Update application status based on decision"
new_status(decision) ==
    IF decision = "APPROVE" THEN "approved"
    ELSE IF decision = "REJECT" THEN "rejected"
    ELSE "verify_required"

\* The finally block of analyze_interview_video for the request req whose
\* locals temp_video_path and temp_audio_path are set: each of its files
\* that is on disk is unlinked; the unlink of a file whose suffix is not
\* in unlinked raises, which is logged, and the file is kept.
Unlink(req, unlinked) ==
    LET left == {f \in DOMAIN tmp_files : f[1] # req \/ f[2] \notin unlinked}
    IN [f \in left |-> IF f[1] = req THEN "kept" ELSE tmp_files[f]]

\* analyze_interview_video from file.read() to the update_one of the
\* interview.  When reading the upload or writing it to the file raises,
\* the handler leaves through the finally block with both paths None and
\* the server answers 500.  Otherwise the audio track is extracted ("ok"),
\* or is not, with no file ("failed") or with what was written of it
\* ("partial"); the classifier of get_risk_classifier decides, and the
\* database applies the update.
analyze_interview_video_update(r, read_ok, extraction, audio_size, duration_seconds, ml) ==
    /\ handlers[r].pc = "read_file"
    /\ UNCHANGED lifespan
    /\ IF ~read_ok
       THEN /\ response' = Response("analyze", 500)
            /\ handlers' = [handlers EXCEPT ![r] = IdleHandler]
            /\ UNCHANGED <<interviews, risk_classifier, loads, handed,
                           tmp_files>>
       ELSE LET cls == get_risk_classifier(risk_classifier, models_dir)[1]
                result == analyze(cls, extraction = "ok", audio_size,
                                  duration_seconds, ml)
            IN /\ tmp_files' =
                     IF extraction = "failed" THEN tmp_files
                     ELSE tmp_files
                            @@ (<<handlers[r].req, "wav">> :> "created")
               /\ risk_classifier' = Some(cls)
               /\ loads' = loads + ArtifactReads(risk_classifier, models_dir)
               /\ handed' = handed \cup {"_risk_classifier_instance"}
               /\ interviews' = update_interview(handlers[r].interview,
                                   analysis_fields(result, duration_seconds,
                                                   handlers[r].at))
               /\ handlers' = [handlers EXCEPT
                                  ![r].pc = "update_applications",
                                  ![r].result = Some(result)]
               /\ response' = NoResponse
    /\ UNCHANGED <<calls, now, reqs, recordings, received, classifier,
                   models_dir, livekit, input, output, applications,
                   job_status>>

\* analyze_interview_video: the update_many of the applications is applied,
\* the handler returns and its finally block removes the temporary files.
analyze_interview_video_applications(r, unlinked) ==
    /\ handlers[r].pc = "update_applications"
    /\ UNCHANGED lifespan
    /\ handlers[r].op = "analyze"
    /\ applications' = update_applications(
                           handlers[r].job_id, handlers[r].client_id,
                           new_status(handlers[r].result[1].decision))
    /\ tmp_files' = Unlink(handlers[r].req, unlinked)
    /\ Return200(r)
    /\ UNCHANGED <<calls, now, reqs, recordings, classifier, models_dir,
                   livekit, input, output, interviews, job_status,
                   risk_classifier, loads, handed>>

\* --------------------------------------------------------------- health_check

\* health_check: it asks get_classifier for the classifier and reports.
health_check ==
    /\ lifespan = "yielded"
    /\ received < MaxInterviewRequests
    /\ classifier' = get_classifier(classifier, models_dir)
    /\ loads' = loads + ArtifactReads(classifier, models_dir)
    /\ handed' = handed \cup {"_classifier_instance"}
    /\ received' = received + 1
    /\ response' = Response("health", 200)
    /\ UNCHANGED <<calls, now, reqs, recordings, models_dir, livekit, input,
                   output, interviews, applications, job_status, handlers,
                   risk_classifier, tmp_files,
                   lifespan>>

\* ------------------------------------- the specification of the interviews

\* The callers of the interview router: the admin, a client, a bad token.
InterviewCallers == {"admin1", "client1", InvalidToken}

\* The jobs an interview request names: one that exists and one that does
\* not.
InterviewJobIds == {1, 3}

\* What an uploaded video gives: len(audio_bytes) and duration_seconds.
AudioSizes == {100000, 100001}
Durations == {5, 31}

\* What extract_audio_from_video may do.
Extractions == {"ok", "failed", "partial"}

\* What the scaler and the model may do on the audio of an interview.
InterviewMLBehaviours ==
    MLBehaviours
       \cup {[transform |-> "ok", model |-> "ok", probs |-> <<502, 9001, 497>>]}

InterviewInit == Init /\ ~livekit

InterviewNext ==
    \/ Tick
    \/ health_check
    \/ \E r \in Slots, user \in InterviewCallers, job_id \in InterviewJobIds,
          client_id \in ClientIds :
          \/ \E data \in InviteBodies :
                invite_for_interview_find(r, user, job_id, client_id, data)
          \/ analyze_interview_video_find(r, user, job_id, client_id)
    \/ \E r \in Slots :
          \/ invite_for_interview_write(r)
          \/ invite_for_interview_applications(r)
          \/ invite_for_interview_job(r)
    \/ \E r \in Slots, unlinked \in SUBSET {"mp4", "wav"} :
          analyze_interview_video_applications(r, unlinked)
    \/ \E r \in Slots, read_ok \in BOOLEAN, extraction \in Extractions,
          audio_size \in AudioSizes, duration_seconds \in Durations,
          ml \in InterviewMLBehaviours :
          analyze_interview_video_update(r, read_ok, extraction, audio_size,
                                         duration_seconds, ml)

InterviewSpec == InterviewInit /\ [][InterviewNext]_vars

\* ------------------------------------------------------ the predict router

\* settings.supported_audio_formats
SupportedFormats == {"wav", "mp3", "ogg", "flac", "m4a"}

\* str.lower().strip() on the format strings of the requests.
lower_strip(format) ==
    IF format \in {"WAV", " wav "} THEN "wav" ELSE format

\* validate_audio_format.  Every argument is an Optional; a filename is
\* the sequence of its parts between dots.  It returns the format or
\* raises AudioValidationError with a code.
validate_audio_format(filename, content_type, audio_format) ==
    LET mime_to_format == ("audio/wav" :> "wav") @@ ("audio/mpeg" :> "mp3")
        detected_format ==
            IF audio_format # None /\ audio_format[1] # ""
            THEN Some(lower_strip(audio_format[1]))
            ELSE IF filename # None /\ filename[1] # <<>>
            THEN IF Len(filename[1]) > 1
                 THEN Some(lower_strip(filename[1][Len(filename[1])]))
                 ELSE None
            ELSE IF content_type # None /\ content_type[1] # ""
            THEN IF content_type[1] \in DOMAIN mime_to_format
                 THEN Some(mime_to_format[content_type[1]])
                 ELSE None
            ELSE None
    IN IF detected_format = None \/ detected_format[1] = ""
       THEN Raise([type |-> "AudioValidationError", code |-> "UNKNOWN_FORMAT"])
       ELSE IF detected_format[1] \notin SupportedFormats
       THEN Raise([type |-> "AudioValidationError",
                   code |-> "UNSUPPORTED_FORMAT"])
       ELSE Return(detected_format[1])

\* base64.b64decode of a str, returning the number of bytes.  A character
\* outside ASCII raises ValueError; characters outside the base64
\* alphabet are discarded; data characters that do not come in fours raise
\* binascii.Error; four data characters give three bytes.
b64decode(s) ==
    LET data == SelectSeq(s, LAMBDA c : c = "A")
    IN IF \E i \in DOMAIN s : s[i] = "é" THEN Raise([type |-> "ValueError"])
       ELSE IF Len(data) % 4 # 0 THEN Raise([type |-> "binascii.Error"])
       ELSE Return((Len(data) \div 4) * 3)

\* decode_base64_audio: it drops a data URI prefix, decodes, refuses empty
\* audio, and turns binascii.Error into AudioValidationError; any other
\* exception leaves it as it is.
decode_base64_audio(audio_base64) ==
    LET commas == {i \in DOMAIN audio_base64 : audio_base64[i] = ","}
        first == CHOOSE i \in commas : \A j \in commas : i <= j
        payload == IF commas # {}
                   THEN SubSeq(audio_base64, first + 1, Len(audio_base64))
                   ELSE audio_base64
        audio_bytes == b64decode(payload)
    IN IF audio_bytes.kind = "raise"
       THEN IF audio_bytes.exc.type = "binascii.Error"
            THEN Raise([type |-> "AudioValidationError",
                        code |-> "INVALID_BASE64"])
            ELSE audio_bytes
       ELSE IF audio_bytes.value = 0
       THEN Raise([type |-> "AudioValidationError", code |-> "EMPTY_AUDIO"])
       ELSE audio_bytes

\* validate_audio_size, on the number of bytes, with max_size_mb = 50.0.
validate_audio_size(audio_bytes) ==
    IF audio_bytes > 50 * 1024 * 1024
    THEN Raise([type |-> "AudioValidationError", code |-> "FILE_TOO_LARGE"])
    ELSE Return(audio_bytes)

\* The try block of a predict handler behind its validation, and its
\* except clauses: validated is what the validation returned or raised.
\* The result is the status of the response, the code of its detail, and
\* whether get_classifier() was called ("invoked").
predict_response(validated, ml) ==
    IF validated.kind = "raise"
    THEN IF validated.exc.type = "AudioValidationError"
         THEN [status |-> 400, code |-> validated.exc.code, invoked |-> FALSE]
         ELSE [status |-> 500, code |-> "INFERENCE_ERROR", invoked |-> FALSE]
    ELSE LET c == get_classifier(classifier, models_dir)[1]
         IN IF ~c.is_loaded
            THEN [status |-> 503, code |-> "none", invoked |-> TRUE]
            ELSE IF IntentClassifier_predict(c, ml).kind = "raise"
            THEN [status |-> 500, code |-> "INFERENCE_ERROR", invoked |-> TRUE]
            ELSE [status |-> 200, code |-> "none", invoked |-> TRUE]

\* A predict handler answers: input and output keep the request and the
\* result, and the accessor, when called, hands out the classifier.
Answer(op, request, result) ==
    /\ input' = Some(request)
    /\ output' = Some(result)
    /\ response' = Response(op, result.status)
    /\ classifier' = IF result.invoked
                     THEN get_classifier(classifier, models_dir)
                     ELSE classifier
    /\ loads' = IF result.invoked
                THEN loads + ArtifactReads(classifier, models_dir) ELSE loads
    /\ handed' = IF result.invoked
                 THEN handed \cup {"_classifier_instance"} ELSE handed
    /\ UNCHANGED <<calls, now, reqs, recordings, received, models_dir, livekit,
                   interviews, applications, job_status, handlers,
                   risk_classifier, tmp_files,
                   lifespan>>

\* predict_from_upload, as the one request of a run: the format, the
\* size, the prediction.
predict_from_upload(audio_file, ml) ==
    /\ lifespan = "yielded"
    /\ output = None
    /\ LET audio_format == validate_audio_format(audio_file.filename,
                                                 audio_file.content_type,
                                                 None)
           validated == IF audio_format.kind = "raise" THEN audio_format
                        ELSE validate_audio_size(audio_file.size)
       IN Answer("predict_upload", audio_file,
                 predict_response(validated, ml))

\* predict_from_base64, as the one request of a run: the format, the
\* decoding, the size, the prediction.
predict_from_base64(request, ml) ==
    /\ lifespan = "yielded"
    /\ output = None
    /\ LET audio_format == validate_audio_format(None, None,
                                                 Some(request.audio_format))
           audio_bytes == decode_base64_audio(request.audio_base64)
           validated == IF audio_format.kind = "raise" THEN audio_format
                        ELSE IF audio_bytes.kind = "raise" THEN audio_bytes
                        ELSE validate_audio_size(audio_bytes.value)
       IN Answer("predict_base64", request,
                 predict_response(validated, ml))

\* Uploads: a name with or without an extension or none, a MIME type or
\* none, and a size up to one byte more than the 50 MB allowed.
Uploads ==
    [filename : {None, Some(<<"test", "wav">>), Some(<<"test", "WAV">>),
                 Some(<<"test", "xyz">>), Some(<<"test">>)},
     content_type : {None, Some("audio/wav"), Some("audio/xyz")},
     size : {0, 10, 50 * 1024 * 1024, 50 * 1024 * 1024 + 1}]

\* Base64 requests: audio_base64 is one to four characters (min_length=1)
\* of a data character, a character outside the alphabet, the comma of a
\* data URI and a character outside ASCII; audio_format is as the
\* validator of the schema leaves it.
Base64Requests ==
    [audio_base64 : UNION {[1..n -> {"A", "!", ",", "é"}] : n \in 1..4},
     audio_format : {"wav", "mp3", "xyz", ""}]

\* lifespan behind its yield, once no request is in flight: reset_classifier
\* unloads the two instances and drops them, and no request is served
\* any more.
lifespan_shutdown ==
    /\ lifespan = "yielded"
    /\ \A r \in Slots : reqs[r] = IdleSlot /\ handlers[r] = IdleHandler
    /\ lifespan' = "exited"
    /\ classifier' = None
    /\ risk_classifier' = None
    /\ response' = NoResponse
    /\ UNCHANGED <<calls, now, reqs, recordings, received, models_dir, livekit,
                   input, output, interviews, applications, job_status,
                   handlers, loads, handed, tmp_files>>

PredictionNext ==
    \/ health_check
    \/ \E audio_file \in Uploads, ml \in MLBehaviours :
          predict_from_upload(audio_file, ml)
    \/ \E request \in Base64Requests, ml \in MLBehaviours :
          predict_from_base64(request, ml)
    \/ lifespan_shutdown

PredictionSpec == InterviewInit /\ [][PredictionNext]_vars

\* ================================================================== claims

\* Steps of the handler in slot r, read off the state.
\* The handler of slot r, awaiting the update_one of op, returns.
Returns(r, op) ==
    /\ reqs[r].pc = "update_one"
    /\ reqs[r].op = op
    /\ reqs'[r] = IdleSlot

\* The check_missed_calls of slot r has its update_many applied.
Sweeps(r) ==
    /\ reqs[r].pc = "update_many"
    /\ reqs'[r] = IdleSlot

\* The status changes the call lifecycle defines.
DefinedTransitions ==
    { <<"ringing", "accepted">>, <<"ringing", "rejected">>,
      <<"ringing", "missed">>, <<"ringing", "ended">>,
      <<"accepted", "ended">> }

\* C1: a status of rejected, missed or ended never changes again; the only
\* status changes of a call are ringing->accepted, ringing->rejected,
\* ringing->missed, ringing->ended and accepted->ended.
C1_OnlyDefinedTransitions ==
    [][\A i \in DOMAIN calls :
          calls'[i].status # calls[i].status
             => <<calls[i].status, calls'[i].status>> \in DefinedTransitions]_vars

\* The calls of job jobId that are ringing or accepted.
ActiveCalls(jobId) ==
    {i \in DOMAIN calls :
        calls[i].jobId = jobId /\ calls[i].status \in {"ringing", "accepted"}}

\* C2: for every job, at most one call of that job is ringing or accepted.
C2_AtMostOneActiveCallPerJob ==
    \A jobId \in DOMAIN Jobs : Cardinality(ActiveCalls(jobId)) <= 1

\* C3: accept_call and reject_call answer 403 to a caller who is not the
\* call's client and 400 when the call they found is not ringing, and write
\* nothing in both cases; they go on to their update only for the client of
\* a call they found ringing, and the update sets the status to accepted,
\* stamping startedAt, or to rejected.
C3_AcceptRejectGuarded ==
    [][/\ \A r \in Slots, user \in Users, call_id \in DOMAIN calls :
             accept_call_find(r, user, call_id) \/ reject_call_find(r, user, call_id)
                => /\ response'.code =
                         IF calls[call_id].clientUserId # user THEN 403
                         ELSE IF calls[call_id].status # "ringing" THEN 400
                         ELSE 0
                   /\ response'.code # 0 => reqs'[r] = IdleSlot
       /\ response'.op \in {"accept", "reject"} /\ response'.code \in {400, 403}
             => calls' = calls
       /\ \A r \in Slots :
             reqs'[r].pc = "update_one" /\ reqs'[r].op \in {"accept", "reject"}
                => /\ reqs'[r].user = calls'[reqs'[r].target].clientUserId
                   /\ reqs'[r].seen = "ringing"
       /\ \A r \in Slots :
             Returns(r, "accept")
                => /\ response' = Response("accept", 200)
                   /\ calls' = [calls EXCEPT ![reqs[r].target] =
                                   [@ EXCEPT !.status = "accepted",
                                             !.startedAt = Some(reqs[r].at),
                                             !.updatedAt = reqs[r].at]]
       /\ \A r \in Slots :
             Returns(r, "reject")
                => /\ response' = Response("reject", 200)
                   /\ calls' = [calls EXCEPT ![reqs[r].target] =
                                   [@ EXCEPT !.status = "rejected",
                                             !.updatedAt = reqs[r].at]]
      ]_vars

\* C3 witness: a call was accepted, and a later accept or reject of a call
\* was answered 400.
C3_Witness ==
    /\ response \in {Response("accept", 400), Response("reject", 400)}
    /\ \E i \in DOMAIN calls :
          calls[i].status = "accepted" /\ calls[i].startedAt # None

\* C4: the update of a timeout sweep turns into missed exactly the calls
\* that are ringing when it is applied and were created more than 30
\* seconds before the sweep read the clock, and leaves every other call as
\* it is; nothing else sets a status to missed, so an accepted or rejected
\* call never becomes missed.
C4_SweepMarksExactlyTimedOut ==
    [][/\ \A r \in Slots :
             Sweeps(r)
                => /\ DOMAIN calls' = DOMAIN calls
                   /\ \A i \in DOMAIN calls :
                         IF /\ calls[i].status = "ringing"
                            /\ reqs[r].at - calls[i].createdAt > CALL_TIMEOUT_SECONDS
                         THEN calls'[i] = [calls[i] EXCEPT
                                              !.status = "missed",
                                              !.updatedAt = reqs[r].at]
                         ELSE calls'[i] = calls[i]
       /\ \A i \in DOMAIN calls :
             calls'[i].status = "missed" /\ calls[i].status # "missed"
                => /\ calls[i].status = "ringing"
                   /\ \E r \in Slots : Sweeps(r)
      ]_vars

\* C4 witness: a sweep has turned one call into missed and left a ringing
\* call that existed then, created less than the timeout before, as it was.
C4_Witness ==
    \E i, j \in DOMAIN calls :
       /\ calls[i].status = "missed"
       /\ calls[j].status = "ringing"
       /\ calls[j].createdAt <= calls[i].updatedAt
       /\ calls[i].updatedAt - calls[i].createdAt > CALL_TIMEOUT_SECONDS

\* Call i was accepted, rejected or ended within the timeout of its creation.
AnsweredInTime(docs, i) ==
    \/ /\ docs[i].startedAt # None
       /\ docs[i].startedAt[1] - docs[i].createdAt <= CALL_TIMEOUT_SECONDS
    \/ /\ docs[i].endedAt # None
       /\ docs[i].endedAt[1] - docs[i].createdAt <= CALL_TIMEOUT_SECONDS
    \/ /\ docs[i].status = "rejected"
       /\ docs[i].updatedAt - docs[i].createdAt <= CALL_TIMEOUT_SECONDS

\* C5 as stated: a call that was not accepted, rejected or ended within 30
\* seconds of its creation is missed after the update of the next sweep
\* that reads the clock more than 30 seconds after the creation.
C5_MissedUnlessAnsweredInTime ==
    [][\A r \in Slots :
          Sweeps(r)
             => \A i \in DOMAIN calls :
                   /\ reqs[r].at - calls[i].createdAt > CALL_TIMEOUT_SECONDS
                   /\ ~AnsweredInTime(calls, i)
                   => calls'[i].status = "missed"
      ]_vars

\* C5, amended: a call that is still ringing when the update of a sweep is
\* applied, and was created more than 30 seconds before the sweep read the
\* clock, is missed after it; an accept or reject that finds a call missed
\* is answered 400 (403 to a caller who is not its client) and writes
\* nothing, and a handler that changes the status of a missed call found
\* the call before the sweep, while it was still ringing.
C5_MissedAfterSweepAndGuarded ==
    [][/\ \A r \in Slots :
             Sweeps(r)
                => \A i \in DOMAIN calls :
                      /\ calls[i].status = "ringing"
                      /\ reqs[r].at - calls[i].createdAt > CALL_TIMEOUT_SECONDS
                      => calls'[i].status = "missed"
       /\ \A r \in Slots, user \in Users, call_id \in DOMAIN calls :
             /\ calls[call_id].status = "missed"
             /\ accept_call_find(r, user, call_id) \/ reject_call_find(r, user, call_id)
             => /\ response'.code =
                      IF calls[call_id].clientUserId = user THEN 400 ELSE 403
                /\ reqs'[r] = IdleSlot
                /\ calls' = calls
       /\ \A i \in DOMAIN calls :
             calls[i].status = "missed" /\ calls'[i].status # "missed"
                => \E r \in Slots :
                      /\ reqs[r].pc = "update_one"
                      /\ reqs[r].target = i
                      /\ reqs[r].seen = "ringing"
                      /\ reqs'[r] = IdleSlot
      ]_vars

\* C5 witness: every call was marked missed by a sweep, and an accept of
\* one of them was then answered 400.
C5_Witness ==
    /\ response = Response("accept", 400)
    /\ calls # <<>>
    /\ \A i \in DOMAIN calls :
          /\ calls[i].status = "missed"
          /\ calls[i].updatedAt - calls[i].createdAt > CALL_TIMEOUT_SECONDS

\* C6: end_call answers 403 to a caller who is neither the call's admin
\* nor its client and 400 when the call it found is not ringing or
\* accepted, and writes nothing in both cases; it goes on to its update
\* only for a party of a call it found ringing or accepted, and the update
\* sets the status to ended and stamps endedAt.
C6_EndGuarded ==
    [][/\ \A r \in Slots, user \in Users, call_id \in DOMAIN calls :
             end_call_find(r, user, call_id)
                => /\ response'.code =
                         IF user \notin {calls[call_id].clientUserId,
                                         calls[call_id].adminUserId} THEN 403
                         ELSE IF calls[call_id].status
                                    \in {"rejected", "missed", "ended"} THEN 400
                         ELSE 0
                   /\ response'.code # 0 => reqs'[r] = IdleSlot
       /\ response'.op = "end" /\ response'.code \in {400, 403} => calls' = calls
       /\ \A r \in Slots :
             reqs'[r].pc = "update_one" /\ reqs'[r].op = "end"
                => /\ reqs'[r].user \in {calls'[reqs'[r].target].clientUserId,
                                         calls'[reqs'[r].target].adminUserId}
                   /\ reqs'[r].seen \in {"ringing", "accepted"}
       /\ \A r \in Slots :
             Returns(r, "end")
                => /\ response' = Response("end", 200)
                   /\ calls' = [calls EXCEPT ![reqs[r].target] =
                                   [@ EXCEPT !.status = "ended",
                                             !.endedAt = Some(reqs[r].at),
                                             !.updatedAt = reqs[r].at]]
      ]_vars

\* C6 witness: a call was ended, and a later end_call was answered 400.
C6_Witness ==
    /\ response = Response("end", 400)
    /\ \E i \in DOMAIN calls :
          calls[i].status = "ended" /\ calls[i].endedAt # None

\* C7: upload_recording answers 403 to a caller who is not the call's
\* client and 400 when the call it found is not ended; in both cases no
\* file is saved and no call record changes, so neither a recording nor an
\* analysis is stored; it saves and analyses only for the client of a call
\* it found ended.
C7_UploadGuarded ==
    [][/\ \A r \in Slots, user \in Users, call_id \in DOMAIN calls :
             upload_recording_find(r, user, call_id)
                => /\ response'.code =
                         IF calls[call_id].clientUserId # user THEN 403
                         ELSE IF calls[call_id].status # "ended" THEN 400
                         ELSE 0
                   /\ response'.code # 0 => reqs'[r] = IdleSlot
       /\ response'.op = "upload" /\ response'.code \in {400, 403}
             => calls' = calls /\ recordings' = recordings
       /\ \A r \in Slots :
             reqs'[r].pc = "update_one" /\ reqs'[r].op = "upload"
                => /\ reqs'[r].user = calls'[reqs'[r].target].clientUserId
                   /\ reqs'[r].seen = "ended"
       /\ \A i \in DOMAIN calls :
             \/ calls'[i].recording # calls[i].recording
             \/ calls'[i].analysis # calls[i].analysis
             => \E r \in Slots : Returns(r, "upload") /\ reqs[r].target = i
      ]_vars

\* C7 witness: an upload for a call that is ringing or accepted was
\* answered 400 and the call holds neither a recording nor an analysis.
C7_Witness ==
    /\ response = Response("upload", 400)
    /\ calls # <<>>
    /\ \A i \in DOMAIN calls :
          /\ calls[i].status \in {"ringing", "accepted"}
          /\ calls[i].recording = None
          /\ calls[i].analysis = None

\* C8: an upload that returns 200 leaves its call with one recording
\* reference and one analysis, both of this upload (stamped with the time
\* of this upload, whatever the call held before), and changes only the
\* recording, the analysis and updatedAt of that call: not its status, and
\* no other call.
C8_UploadOverwrites ==
    [][\A r \in Slots :
          Returns(r, "upload") /\ response' = Response("upload", 200)
             => LET i == reqs[r].target
                IN /\ Len(calls'[i].analysis) = 1
                   /\ Len(calls'[i].recording) = 1
                   /\ calls'[i].analysis[1].analyzedAt = now
                   /\ calls'[i].recording[1].uploadedAt = now
                   /\ calls'[i].recording[1].backendFilePath \in recordings'
                   /\ calls'[i].recording[1].backendFilePath[1] = i
                   /\ calls'[i].updatedAt = now
                   /\ calls' = [calls EXCEPT ![i] =
                                   [@ EXCEPT !.recording = calls'[i].recording,
                                             !.analysis = calls'[i].analysis,
                                             !.updatedAt = calls'[i].updatedAt]]
      ]_vars

\* C8 witness: two recordings of one call were saved, the second after the
\* first, and the call holds the one analysis of the second.
C8_Witness ==
    \E i \in DOMAIN calls :
       /\ Cardinality({f \in recordings : f[1] = i}) = 2
       /\ calls[i].status = "ended"
       /\ Len(calls[i].analysis) = 1
       /\ calls[i].analysis[1].analyzedAt > calls[i].endedAt[1]
       /\ response = Response("upload", 200)

\* C9: the predict that upload_recording calls on the classifier of the
\* process never raises, whatever the scaler and the model do on the
\* recording: neither IntentClassifier.predict, which the handler calls,
\* nor the IntentRiskClassifier.predict behind it.
C9_PredictNeverRaises ==
    [][\A r \in Slots, ext \in Extensions, ml \in MLBehaviours :
          upload_recording_update(r, ext, TRUE, ml)
             => /\ IntentClassifier_predict(LoadedClassifier, ml).kind = "ok"
                /\ RiskClassifier_predict(LoadedClassifier.classifier, ml).kind
                      = "ok"
      ]_vars

\* C10: every analysis attached to a call record carries a label of
\* INTENT_LABELS and a confidence in [0, 1].
C10_AnalysisLabelAndConfidence ==
    \A i \in DOMAIN calls :
       calls[i].analysis # None
          => /\ calls[i].analysis[1].intentLabel
                   \in {INTENT_LABELS[k] : k \in DOMAIN INTENT_LABELS}
             /\ calls[i].analysis[1].confidence \in 0..10000

\* The sum of the scores of a list of (label, score) pairs.
RECURSIVE SumScores(_)
SumScores(scores) ==
    IF scores = <<>> THEN 0 ELSE Head(scores)[2] + SumScores(Tail(scores))

\* predict has returned a PredictionResult.
Predicted == output # None /\ output[1].kind = "ok"

\* C11: a result of predict, from the rules or from the trained model, has
\* scores that sum to 1 within 1e-3, a confidence in [0, 1] that is the
\* score listed for the predicted label, and no label with a larger score
\* than the predicted one.
C11_ScoresConsistent ==
    Predicted =>
       LET r == output[1].value
       IN /\ SumScores(r.all_scores) \in 9990..10010
          /\ r.confidence \in 0..10000
          /\ \E i \in DOMAIN r.all_scores :
                /\ r.all_scores[i][1] = r.predicted_intent
                /\ r.all_scores[i][2] = r.confidence
          /\ \A i \in DOMAIN r.all_scores :
                /\ r.all_scores[i][2] <= r.confidence
                /\ r.all_scores[i][1] = r.predicted_intent
                      => r.all_scores[i][2] = r.confidence

\* C11 witness: the rules returned scores whose rounded values do not sum
\* to 1 exactly.
C11_Witness ==
    /\ Predicted
    /\ ~input.self.use_ml_model
    /\ SumScores(output[1].value.all_scores) # 10000

\* The feature dicts with every field 0.
ZeroProsodic == [pitch_std |-> 0, pause_ratio |-> 0, speech_rate |-> 0]
ZeroText ==
    [positive_word_count |-> 0, negative_word_count |-> 0,
     hesitation_count |-> 0, question_count |-> 0, text_word_count |-> 0]

\* C13: on the feature dicts with every field 0 the rules predict VERIFY,
\* and VERIFY has the highest score.
C13_AllZeroIsVerify ==
    /\ output # None
    /\ ~input.self.use_ml_model
    /\ input.audio_features = ZeroProsodic
    /\ input.text_features = ZeroText
    => /\ output[1].kind = "ok"
       /\ output[1].value.predicted_intent = "VERIFY"
       /\ output[1].value.all_scores[1][1] = "VERIFY"

\* The input of C14: pause_ratio 0.08, speech_rate 3.5.
ConfidentSpeech ==
    /\ ~input.self.use_ml_model
    /\ input.audio_features =
          [pitch_std |-> 15, pause_ratio |-> 8, speech_rate |-> 35]
    /\ input.text_features =
          [positive_word_count |-> 10, negative_word_count |-> 1,
           hesitation_count |-> 0, question_count |-> 1,
           text_word_count |-> 200]

\* C14: for pitch_std 15, pause_ratio 0.08, speech_rate 3.5, 10 positive
\* words, 1 negative word, no hesitation, 1 question and 200 words the
\* rules return PROCEED with a confidence above 0.5.
C14_ConfidentSpeechProceeds ==
    output # None /\ ConfidentSpeech
       => /\ output[1].kind = "ok"
          /\ output[1].value.predicted_intent = "PROCEED"
          /\ output[1].value.confidence > 5000

\* C14 witness: predict has returned for that input.
C14_Witness == Predicted /\ ConfidentSpeech

\* The input of C15: pause_ratio 0.30, speech_rate 2.0.
HesitantSpeech ==
    /\ ~input.self.use_ml_model
    /\ input.audio_features =
          [pitch_std |-> 45, pause_ratio |-> 30, speech_rate |-> 20]
    /\ input.text_features =
          [positive_word_count |-> 1, negative_word_count |-> 10,
           hesitation_count |-> 8, question_count |-> 7,
           text_word_count |-> 40]

\* C15: for pitch_std 45, pause_ratio 0.30, speech_rate 2.0, 1 positive
\* word, 10 negative words, 8 hesitations, 7 questions and 40 words the
\* rules return REJECT.
C15_HesitantSpeechRejected ==
    output # None /\ HesitantSpeech
       => /\ output[1].kind = "ok"
          /\ output[1].value.predicted_intent = "REJECT"

\* C15 witness: predict has returned for that input.
C15_Witness == Predicted /\ HesitantSpeech

\* The acoustic modality of the input is present: audio that decodes, or
\* a dict of acoustic features.
AudioPresent ==
    \/ input.audio_features # None
    \/ input.audio_data # None /\ input.audio_data[1].decode = "ok"

\* The lexical modality of the input is present: a transcript that is not
\* empty, or a dict of lexical features.
TextPresent == input.text_features # None \/ Truthy(input.transcript)

\* The acoustic fields the sources that are present give.
AudioFieldsGiven ==
    (IF input.audio_features # None
     THEN {FeatureList(input.audio_features[1], AUDIO_FEATURES)} ELSE {})
    \cup
    (IF input.audio_data # None /\ input.audio_data[1].decode = "ok"
     THEN {input.audio_data[1].values} ELSE {})

\* The lexical fields the sources that are present give.
TextFieldsGiven ==
    (IF input.text_features # None
     THEN {FeatureList(input.text_features[1], TEXT_FEATURES)} ELSE {})
    \cup
    (IF Truthy(input.transcript)
     THEN {FeatureList(extract_text_features(input.transcript[1]),
                       TEXT_FEATURES)}
     ELSE {})

\* C16: extract_features returns, without raising, 16 fields, the 8
\* acoustic ones first; the fields of a modality that is present are those
\* one of its sources gives, and the fields of a modality that is absent
\* or failed are 0, so that with neither modality every field is 0.
C16_SixteenFieldsZeroFilled ==
    output # None
       => /\ output[1].kind = "ok"
          /\ LET v == output[1].value
                 audio == SubSeq(v, 1, 8)
                 text == SubSeq(v, 9, Len(v))
             IN /\ Len(v) = 16
                /\ IF AudioPresent THEN audio \in AudioFieldsGiven
                   ELSE audio = Zeros(8)
                /\ IF TextPresent THEN text \in TextFieldsGiven
                   ELSE text = Zeros(8)

\* C17: load_model does not raise; when a file of the bundle is absent the
\* classifier is loaded with the rules selected and model_version
\* "rules-1.0.0"; and model_version is "rules-1.0.0" exactly when the rules
\* are the strategy selected.
C17_FallbackToRules ==
    output # None
       => /\ output[1].kind = "ok"
          /\ LET self == output[1].value
             IN /\ self.is_loaded
                /\ DOMAIN input.dir # ArtifactFiles
                      => /\ ~self.use_ml_model
                         /\ self.model_version = <<"rules", "1.0.0">>
                /\ self.model_version = <<"rules", "1.0.0">>
                      <=> ~self.use_ml_model

\* C18: between process start and shutdown the trained model is read at
\* most once, and every caller of an accessor is given the same object.
C18_SingletonLoadedOnce ==
    /\ loads <= 1
    /\ Cardinality(handed) <= 1

\* The analyze_interview_video of slot r has its analysis made and its
\* update_one of the interview applied.
Decides(r) ==
    /\ handlers[r].pc = "read_file"
    /\ handlers'[r].pc = "update_applications"

\* The analyze_interview_video of slot r has its update_many of the
\* applications applied and returns.
WritesStatus(r) ==
    /\ handlers[r].pc = "update_applications"
    /\ handlers[r].op = "analyze"
    /\ handlers'[r] = IdleHandler

\* A decision and the application status that corresponds to it.
Corresponds(decision, status) ==
    <<decision, status>> \in {<<"APPROVE", "approved">>,
                              <<"REJECT", "rejected">>,
                              <<"VERIFY", "verify_required">>}

\* C19: when the model gives a label in analyze_interview_video, the
\* decision stored on the interview is APPROVE for PROCEED, REJECT for
\* REJECT and VERIFY for VERIFY; and the application status a request
\* writes corresponds to the decision that request stored on the interview
\* (approved, rejected, verify_required).
C19_DecisionAndStatusFollowLabel ==
    [][\A r \in Slots :
          /\ Decides(r)
                => LET locals == handlers'[r].result[1]
                       stored == interviews'[handlers[r].interview]
                                    .analysisDecision
                   IN /\ stored = Some(locals.decision)
                      /\ locals.label = Some("PROCEED")
                            => stored = Some("APPROVE")
                      /\ locals.label = Some("REJECT")
                            => stored = Some("REJECT")
                      /\ locals.label = Some("VERIFY")
                            => stored = Some("VERIFY")
          /\ WritesStatus(r)
                => LET pair == <<handlers[r].job_id, handlers[r].client_id>>
                   IN /\ pair \in DOMAIN applications
                            => Corresponds(handlers[r].result[1].decision,
                                           applications'[pair])
                      /\ \A q \in DOMAIN applications \ {pair} :
                            applications'[q] = applications[q]
      ]_vars

\* An analysis whose label was REJECT has returned: the model and the
\* encoder are loaded, and the interview and the application say so.
C19_Witness ==
    /\ risk_classifier # None
    /\ risk_classifier[1].use_ml_model
    /\ response = Response("analyze", 200)
    /\ \E i \in DOMAIN interviews :
          /\ interviews[i].analysisDecision = Some("REJECT")
          /\ interviews[i].reasons = decision_reasons("REJECT")
          /\ applications[<<interviews[i].jobId, interviews[i].clientId>>]
                = "rejected"

\* C20: an interview is created pending and completed by its first
\* analysis; whenever no request is in flight and analyses were the last
\* to write, the interview of a pair and the status of its application
\* show the same analysis, the latest: the status corresponds to the stored
\* decision, and every pending interview has no decision or completion
\* time.
C20_LatestAnalysisOnly ==
    /\ \A i \in DOMAIN interviews :
          /\ interviews[i].status \in {"pending", "completed"}
          /\ interviews[i].status = "pending"
                <=> interviews[i].analysisDecision = None
          /\ interviews[i].status = "pending"
                <=> interviews[i].interviewCompletedAt = None
    /\ (\A r \in Slots : handlers[r].pc = "idle")
          => \A pair \in DOMAIN applications :
                LET i == find_interview(pair[1], pair[2])
                IN ( /\ i # 0
                     /\ interviews[i].status = "completed"
                     /\ applications[pair] # "invited_interview" )
                      => Corresponds(interviews[i].analysisDecision[1],
                                     applications[pair])

\* C21: no temporary file outlives the request that made it: every file
\* of the temporary directory belongs to an analyze_interview_video still
\* in flight, or its deletion was attempted and failed.
C21_NoTemporaryFileOutlivesItsRequest ==
    \A f \in DOMAIN tmp_files :
       \/ tmp_files[f] = "kept"
       \/ \E r \in Slots : /\ handlers[r].op = "analyze"
                           /\ handlers[r].req = f[1]

\* A base64 request whose payload b64decode refuses.
Undecodable(request) ==
    decode_base64_audio(request.audio_base64).kind = "raise"
       /\ decode_base64_audio(request.audio_base64).exc
             # [type |-> "AudioValidationError", code |-> "EMPTY_AUDIO"]

\* C22: a prediction request whose format is not supported or whose base64
\* payload cannot be decoded is answered 400 with a code, and the
\* classifier is not asked for; the format is checked before the payload.
C22_InvalidAudioRejected ==
    (output # None /\ response.op \in {"predict_upload", "predict_base64"})
       => LET request == input[1]
              result == output[1]
              format == IF response.op = "predict_base64"
                        THEN Some(request.audio_format)
                        ELSE IF request.filename # None
                        THEN IF Len(request.filename[1]) > 1
                             THEN Some(request.filename[1][2])
                             ELSE None
                        ELSE IF request.content_type = Some("audio/wav")
                        THEN Some("wav")
                        ELSE None
              supported == format \in {Some("wav"), Some("WAV"), Some("mp3")}
          IN /\ ~supported
                   => /\ result.status = 400
                      /\ result.code \in {"UNSUPPORTED_FORMAT",
                                          "UNKNOWN_FORMAT"}
                      /\ ~result.invoked
             /\ (supported /\ response.op = "predict_base64"
                   /\ Undecodable(request))
                   => /\ result.status = 400
                      /\ result.code = "INVALID_BASE64"
                      /\ ~result.invoked

\* The rule table: for each signal what its low, mid and high branch add
\* to the accumulators <<proceed, verify, reject>>, in hundredths.
RuleTable ==
    [pitch_std |-> [low |-> <<15, 0, 0>>, mid |-> <<0, 10, 0>>,
                    high |-> <<0, 0, 15>>],
     pause_ratio |-> [low |-> <<15, 0, 0>>, mid |-> <<0, 10, 0>>,
                      high |-> <<0, 0, 15>>],
     speech_rate |-> [low |-> <<10, 0, 0>>, mid |-> <<0, 5, 0>>,
                      high |-> <<0, 0, 10>>],
     sentiment |-> [low |-> <<20, 0, 0>>, mid |-> <<0, 15, 0>>,
                    high |-> <<0, 0, 20>>],
     hesitation_count |-> [low |-> <<10, 0, 0>>, mid |-> <<0, 10, 0>>,
                           high |-> <<0, 0, 15>>],
     question_count |-> [low |-> <<10, 0, 0>>, mid |-> <<0, 10, 0>>,
                         high |-> <<0, 5, 10>>],
     word_count |-> [low |-> <<10, 0, 0>>, mid |-> <<0, 0, 0>>,
                     high |-> <<0, 0, 10>>]]

\* The branch of the table each signal of f falls in.
BranchOf(f) ==
    [pitch_std |-> IF f.pitch_std < 22 THEN "low"
                   ELSE IF f.pitch_std > 35 THEN "high" ELSE "mid",
     pause_ratio |-> IF f.pause_ratio < 12 THEN "low"
                     ELSE IF f.pause_ratio > 22 THEN "high" ELSE "mid",
     speech_rate |-> IF f.speech_rate > 32 THEN "low"
                     ELSE IF f.speech_rate < 27 THEN "high" ELSE "mid",
     sentiment |-> IF f.positive_count > 2 * f.negative_count THEN "low"
                   ELSE IF f.negative_count > 2 * f.positive_count
                   THEN "high" ELSE "mid",
     hesitation_count |-> IF f.hesitation_count <= 1 THEN "low"
                          ELSE IF f.hesitation_count \in 2..4 THEN "mid"
                          ELSE "high",
     question_count |-> IF f.question_count <= 2 THEN "low"
                        ELSE IF f.question_count \in 3..5 THEN "mid"
                        ELSE "high",
     word_count |-> IF f.word_count >= 150 THEN "low"
                    ELSE IF f.word_count < 70 THEN "high" ELSE "mid"]

\* The accumulator of index k (1 proceed, 2 verify, 3 reject) by the table:
\* its base weight and what the branch of each signal adds.
RECURSIVE TableSum(_, _, _)
TableSum(signals, f, k) ==
    IF signals = {} THEN <<10, 15, 10>>[k]
    ELSE LET sig == CHOOSE x \in signals : TRUE
         IN RuleTable[sig][BranchOf(f)[sig]][k]
               + TableSum(signals \ {sig}, f, k)

\* The rules were called and returned.
RulesReturned == Predicted /\ ~input.self.use_ml_model

\* C23: the accumulators of the rule engine are the base weights plus what
\* the rule table adds for the one branch each signal falls in, and each
\* returned score is its accumulator divided by the sum of the three.
C23_AccumulatorsFollowRuleTable ==
    RulesReturned =>
       LET f == RuleInputs(input.audio_features, input.text_features)
           acc == [k \in 1..3 |-> TableSum(DOMAIN RuleTable, f, k)]
           total == acc[1] + acc[2] + acc[3]
           scores == output[1].value.all_scores
       IN /\ proceed_score(f) = acc[1]
          /\ verify_score(f) = acc[2]
          /\ reject_score(f) = acc[3]
          /\ Len(scores) = 3
          /\ \A i \in 1..3 :
                \E k \in 1..3 :
                   /\ scores[i][1] = <<"PROCEED", "VERIFY", "REJECT">>[k]
                   /\ scores[i][2] = Round4(acc[k], total)
          /\ {scores[i][1] : i \in 1..3} = {"PROCEED", "VERIFY", "REJECT"}

\* The rules returned for six questions, a pitch deviation on the lower
\* threshold and the default word count: the branch that adds to two
\* accumulators, and the rule that adds nothing.
C23_Witness ==
    /\ RulesReturned
    /\ input.text_features = ("question_count" :> 6)
    /\ input.audio_features = ("pitch_std" :> 22)
    /\ {output[1].value.all_scores[i] : i \in 1..3}
          = {<<"PROCEED", 2000>>, <<"VERIFY", 6000>>, <<"REJECT", 2000>>}

\* The strategy load_model chose when the process started: TRUE for the
\* trained model, FALSE for the rules.
StrategyAtLoad == load_model(IntentRiskClassifier, models_dir).use_ml_model

\* This step is a prediction of a predict handler.
Predicts == output = None /\ output' # None /\ output'[1].invoked

\* C24: while the application runs, no step of a handler changes a loaded
\* classifier (strategy, model, scaler, label encoder, metadata and
\* model_version are as load_model left them); they change only in the
\* shutdown of the process; and every prediction is made with the strategy
\* chosen at load time: the rules answer 200, the trained model's branch
\* of the legacy wrapper 500.
C24_LoadedClassifierUnchanged ==
    [][/\ lifespan' = "yielded" =>
            /\ classifier # None => classifier' = classifier
            /\ risk_classifier # None => risk_classifier' = risk_classifier
       /\ classifier' # None =>
            classifier'[1].classifier = load_model(IntentRiskClassifier, models_dir)
       /\ Predicts =>
            /\ classifier[1].classifier.use_ml_model = StrategyAtLoad
            /\ output'[1].status = IF StrategyAtLoad THEN 500 ELSE 200]_vars

\* A process started with the trained model has answered a health check
\* and made a prediction, and still holds the classifier as loaded.
C24_Witness ==
    /\ lifespan = "yielded"
    /\ received >= 1
    /\ output # None
    /\ output[1].invoked
    /\ classifier # None
    /\ classifier[1].classifier.use_ml_model
    /\ classifier[1].classifier.model_version = <<"ml", "2.0.0">>

\* How often the keywords of a list occur in text: the places of text at
\* which one of them starts.
Occurrences(text, keywords) ==
    Cardinality({<<k, i>> \in (DOMAIN keywords) \X (1..Len(text)) :
                    /\ i + Len(keywords[k]) - 1 <= Len(text)
                    /\ SubSeq(text, i, i + Len(keywords[k]) - 1) = keywords[k]})

\* The eight lexical fields of a transcript as stated, in the order of
\* TEXT_FEATURES.
LexicalFieldsStated(transcript) ==
    IF ~Truthy(transcript) THEN Zeros(8)
    ELSE LET t == transcript[1]
         IN <<Len(t), WordCount(t),
              Occurrences(lower(t), urgency_kw),
              Occurrences(lower(t), money_kw),
              Occurrences(lower(t), secrecy_kw),
              Occurrences(lower(t), pressure_kw),
              Occurrences(lower(t), id_avoid_kw),
              Occurrences(lower(t), otp_pin_kw)>>

\* The lexical fields with each counter the number of keywords of the
\* category that occur at all.
LexicalFieldsDistinct(transcript) ==
    IF ~Truthy(transcript) THEN Zeros(8)
    ELSE LET t == transcript[1]
             kws == <<urgency_kw, money_kw, secrecy_kw, pressure_kw,
                      id_avoid_kw, otp_pin_kw>>
         IN <<Len(t), WordCount(t)>>
               \o [c \in 1..6 |->
                     Cardinality({k \in DOMAIN kws[c] :
                                     Occurrences(lower(t), <<kws[c][k]>>) > 0})]

\* The lexical fields of the call come from its transcript.
LexicalFromTranscript ==
    /\ output # None
    /\ input.audio_features = None \/ input.text_features = None

\* C25: the lexical extraction does not fail; without a transcript, or
\* with an empty one, the eight lexical fields are 0; otherwise they are
\* the length of the transcript, its number of words, and for each of the
\* six categories the number of occurrences of its keywords in the
\* lower-cased transcript.
C25_LexicalFieldsCountOccurrences ==
    LexicalFromTranscript =>
       /\ output[1].kind = "ok"
       /\ SubSeq(output[1].value, 9, 16) = LexicalFieldsStated(input.transcript)

\* Call i is ringing and older than the timeout.
OldRinging(i) ==
    /\ calls[i].status = "ringing"
    /\ now - calls[i].createdAt > CALL_TIMEOUT_SECONDS

\* C26: a call turns missed only in the update of a sweep, and a sweep is
\* run only by an initiate_call that created its call; an initiate goes
\* on to its insert only when it found no ringing or accepted call of its
\* job, and one answered 400 creates no call and schedules no sweep; so a
\* call that is ringing and older than 30 seconds stays ringing until a
\* party accepts, rejects or ends it, or until the sweep that follows the
\* initiation of a later call for another job.
C26_OldRingingCallStaysRinging ==
    [][/\ \A i \in DOMAIN calls :
             calls[i].status # "missed" /\ calls'[i].status = "missed"
                => \E r \in Slots : Sweeps(r)
       /\ \A r \in Slots :
             /\ reqs[r].pc # "background" /\ reqs'[r].pc = "background"
                   => reqs[r].pc = "insert_one"
             /\ reqs'[r].pc = "update_many"
                   => reqs[r].pc \in {"background", "update_many"}
             /\ reqs[r].pc = "idle" /\ reqs'[r].pc = "insert_one"
                   => ActiveCalls(reqs'[r].target) = {}
       /\ response' = Response("initiate", 400)
             => calls' = calls /\ reqs' = reqs
       /\ \A i \in DOMAIN calls :
             OldRinging(i) /\ calls'[i].status # "ringing"
                => \/ \E r \in Slots, op \in {"accept", "reject", "end"} :
                         /\ Returns(r, op)
                         /\ reqs[r].target = i
                         /\ reqs[r].user \in {calls[i].clientUserId,
                                              calls[i].adminUserId}
                   \/ /\ \E r \in Slots : Sweeps(r)
                      /\ \E j \in DOMAIN calls :
                            j > i /\ calls[j].jobId # calls[i].jobId
      ]_vars

\* C26, amended: a call turns missed only in the update of a sweep, and a
\* sweep is run only by an initiate_call that created its call; an
\* initiate goes on to its insert only when it found no ringing or
\* accepted call of its job, whatever the age of the calls, and one
\* answered 400 creates no call and schedules no sweep; a call that is
\* ringing and older than 30 seconds stays ringing until a party accepts,
\* rejects or ends it, or until the update of a sweep, whichever job the
\* initiate_call that scheduled the sweep was for.
C26_OldRingingCallStaysUntilSweep ==
    [][/\ \A i \in DOMAIN calls :
             calls[i].status # "missed" /\ calls'[i].status = "missed"
                => \E r \in Slots : Sweeps(r)
       /\ \A r \in Slots :
             /\ reqs[r].pc # "background" /\ reqs'[r].pc = "background"
                   => /\ reqs[r].pc = "insert_one"
                      /\ Len(calls') = Len(calls) + 1
             /\ reqs'[r].pc = "update_many"
                   => reqs[r].pc \in {"background", "update_many"}
             /\ reqs[r].pc = "idle" /\ reqs'[r].pc = "insert_one"
                   => ActiveCalls(reqs'[r].target) = {}
       /\ response' = Response("initiate", 400)
             => calls' = calls /\ reqs' = reqs
       /\ \A i \in DOMAIN calls :
             OldRinging(i) /\ calls'[i].status # "ringing"
                => \/ \E r \in Slots, op \in {"accept", "reject", "end"} :
                         /\ Returns(r, op)
                         /\ reqs[r].target = i
                         /\ reqs[r].user \in {calls[i].clientUserId,
                                              calls[i].adminUserId}
                   \/ \E r \in Slots : Sweeps(r)
      ]_vars

\* An initiate_call was answered 400 for a job whose only call is ringing
\* and older than 30 seconds, and no sweep is scheduled or running.
C26_Witness ==
    /\ response = Response("initiate", 400)
    /\ Len(calls) = 1
    /\ OldRinging(1)
    /\ \A r \in Slots : reqs[r] = IdleSlot

\* C27: a call whose analysis or recording is set has the status ended,
\* whatever the interleaving of the accept, reject, end, sweep and upload
\* requests.
C27_AnalysedCallIsEnded ==
    \A i \in DOMAIN calls :
       calls[i].analysis # None \/ calls[i].recording # None
          => calls[i].status = "ended"

\* C28: endedAt of a call is set exactly when its status is ended, and
\* startedAt is set only when the call is accepted or is ended (having
\* been accepted): a rejected, missed or ringing call has no startedAt.
C28_TimestampsFollowStatus ==
    \A i \in DOMAIN calls :
       /\ calls[i].endedAt # None <=> calls[i].status = "ended"
       /\ calls[i].startedAt # None => calls[i].status \in {"accepted", "ended"}

\* C29: whatever the features, the rules give three normalized scores
\* above 0 and a confidence, the largest of them, of at least 1/3 and at
\* most 0.8; the scores and the confidence of the result, rounded to four
\* places, are above 0 and at most 0.8 likewise.
C29_RuleConfidenceBounded ==
    RulesReturned =>
       LET r == predict_with_rules(input.audio_features, input.text_features)
           v == output[1].value
       IN /\ \A i \in 1..3 : r.all_scores[i][2] > 0
          /\ \A i \in 1..3 : r.all_scores[i][2] <= r.confidence
          /\ 3 * r.confidence >= r.total
          /\ 5 * r.confidence <= 4 * r.total
          /\ \A i \in 1..3 : v.all_scores[i][2] > 0
          /\ v.confidence = Round4(r.confidence, r.total)
          /\ v.confidence \in 3333..8000

\* The rules returned the confidence 0.8: every signal is in the branch
\* that adds to the proceed score.
C29_Witness ==
    /\ RulesReturned
    /\ output[1].value.predicted_intent = "PROCEED"
    /\ output[1].value.confidence = 8000

\* The invite of slot r, which found an interview of its pair, has its
\* update_one applied.
Reinvites(r) ==
    /\ handlers[r].pc = "write_interview"
    /\ handlers[r].interview # 0
    /\ handlers'[r].pc = "update_applications"

\* C30: the update of an invite that found an interview of its pair
\* changes, of all interviews, only interviewScheduledAt, notes and
\* updatedAt of that one, to the time and the notes of the request and to
\* the handler's now; its status, decision, confidence and reasons stay.
\* The next two writes of the handler set the status of the pair's
\* application and of the job to invited_interview and leave the
\* interviews alone.
C30_ReinviteKeepsAnalysis ==
    [][\A r \in Slots :
          LET h == handlers[r]
          IN /\ Reinvites(r)
                => /\ DOMAIN interviews' = DOMAIN interviews
                   /\ \A i \in DOMAIN interviews : \A f \in DOMAIN interviews[i] :
                         IF i = h.interview /\ f = "interviewScheduledAt"
                         THEN interviews'[i][f]
                                 = IF h.data = None THEN None
                                   ELSE Some(h.data[1].scheduledAt)
                         ELSE IF i = h.interview /\ f = "notes"
                         THEN interviews'[i][f]
                                 = IF h.data = None THEN None
                                   ELSE Some(h.data[1].notes)
                         ELSE IF i = h.interview /\ f = "updatedAt"
                         THEN interviews'[i][f] = h.at
                         ELSE interviews'[i][f] = interviews[i][f]
                   /\ UNCHANGED <<applications, job_status>>
             /\ h.op = "invite" /\ h.pc = "update_applications"
                   /\ handlers'[r].pc = "update_job"
                => /\ \A pair \in DOMAIN applications :
                         applications'[pair] =
                            IF pair = <<h.job_id, h.client_id>>
                            THEN "invited_interview" ELSE applications[pair]
                   /\ UNCHANGED <<interviews, job_status>>
             /\ h.pc = "update_job" /\ handlers'[r].pc = "idle"
                => /\ job_status' = [job_status EXCEPT ![h.job_id] =
                                        "invited_interview"]
                   /\ response' = Response("invite", 200)
                   /\ UNCHANGED <<interviews, applications>>
      ]_vars

\* A re-invite has returned: the interview it updated is still completed
\* with its decision, confidence and reasons, and carries the time and
\* the notes of the request, while the application and the job are
\* invited_interview.
C30_Witness ==
    /\ response = Response("invite", 200)
    /\ \A r \in Slots : handlers[r].pc = "idle"
    /\ Len(interviews) = 1
    /\ interviews[1].status = "completed"
    /\ interviews[1].analysisDecision = Some("APPROVE")
    /\ interviews[1].confidence # None
    /\ interviews[1].reasons # <<>>
    /\ interviews[1].notes = Some("bring ID")
    /\ applications[<<1, "client1">>] = "invited_interview"
    /\ job_status[1] = "invited_interview"

====
